---- MODULE Spec2Model ----
(***************************************************************************)
(* go6502: the interactive debugger (debugger/debugger.go) attached to the *)
(* CPU that Machine.Run (machine/machine.go) steps, with the halt channel  *)
(* and its receiver goroutine.                                             *)
(*                                                                         *)
(* Text typed at the prompt is a sequence of one-character strings, so     *)
(* that strings.Fields, strings.ToLower, strings.Replace and               *)
(* strconv.ParseUint are computed character by character.  Text printed by *)
(* the debugger is a TLA+ string built with \o as Printf builds it.        *)
(***************************************************************************)
EXTENDS Integers, Sequences, FiniteSets, TLC

(***************************************************************************)
(* Bounds of the exploration.                                              *)
(***************************************************************************)
\* interactive lines read from the terminal in one run
MaxTyped == 2
\* saturation of the executed-instructions history counter
MaxSteps == 2

(***************************************************************************)
(* Characters and strings.                                                 *)
(***************************************************************************)
UpperLetters == <<"A","B","C","D","E","F","G","H","I","J","K","L","M",
                  "N","O","P","Q","R","S","T","U","V","W","X","Y","Z">>
LowerLetters == <<"a","b","c","d","e","f","g","h","i","j","k","l","m",
                  "n","o","p","q","r","s","t","u","v","w","x","y","z">>
DigitChars == <<"0","1","2","3","4","5","6","7","8","9">>
HexChars == <<"0","1","2","3","4","5","6","7","8","9","A","B","C","D","E","F">>

IndexOf(seq, c) ==
  IF \E i \in 1..Len(seq) : seq[i] = c
  THEN CHOOSE i \in 1..Len(seq) : seq[i] = c /\ \A j \in 1..(i-1) : seq[j] # c
  ELSE 0

LowerChar(c) ==
  IF IndexOf(UpperLetters, c) > 0 THEN LowerLetters[IndexOf(UpperLetters, c)] ELSE c

UpperChar(c) ==
  IF IndexOf(LowerLetters, c) > 0 THEN UpperLetters[IndexOf(LowerLetters, c)] ELSE c

\* strings.ToLower
ToLower(s) == [i \in 1..Len(s) |-> LowerChar(s[i])]

\* strings.ToUpper
ToUpper(s) == [i \in 1..Len(s) |-> UpperChar(s[i])]

\* strings.Fields: the maximal runs of non-space characters, in order
RECURSIVE FieldsFrom(_, _, _)
FieldsFrom(s, i, cur) ==
  IF i > Len(s)
  THEN IF cur = <<>> THEN <<>> ELSE <<cur>>
  ELSE IF s[i] = " "
       THEN IF cur = <<>>
            THEN FieldsFrom(s, i + 1, <<>>)
            ELSE <<cur>> \o FieldsFrom(s, i + 1, <<>>)
       ELSE FieldsFrom(s, i + 1, Append(cur, s[i]))

Fields(s) == FieldsFrom(s, 1, <<>>)

\* strings.Replace(s, "$", "0x", 1): the first "$" only
ReplaceDollar(s) ==
  LET i == IndexOf(s, "$")
  IN IF i = 0 THEN s
     ELSE SubSeq(s, 1, i - 1) \o <<"0", "x">> \o SubSeq(s, i + 1, Len(s))

\* the text of a character sequence, as Printf's %s writes it
RECURSIVE Text(_)
Text(s) == IF s = <<>> THEN "" ELSE Head(s) \o Text(Tail(s))

RECURSIVE Pow(_, _)
Pow(b, n) == IF n = 0 THEN 1 ELSE b * Pow(b, n - 1)

\* Printf %02X of a byte
Hex2(v) == HexChars[(v \div 16) + 1] \o HexChars[(v % 16) + 1]

\* Printf %04X of a 16-bit word
Hex4(v) == Hex2(v \div 256) \o Hex2(v % 256)

\* Printf %08X of a 32-bit word
Hex8(v) == Hex4(v \div 65536) \o Hex4(v % 65536)

\* Printf %0wb: binary digits, at least w of them
RECURSIVE Bin(_, _)
Bin(v, w) ==
  IF w <= 1 /\ v < 2 THEN DigitChars[v + 1]
  ELSE Bin(v \div 2, w - 1) \o DigitChars[(v % 2) + 1]

\* Printf %q of a byte, for the letters and digits and for control bytes
\* that have no escape letter of their own
Quoted(v) ==
  IF v \in 48..57 THEN "'" \o DigitChars[v - 47] \o "'"
  ELSE IF v \in 65..90 THEN "'" \o UpperLetters[v - 64] \o "'"
  ELSE IF v \in 97..122 THEN "'" \o LowerLetters[v - 96] \o "'"
  ELSE "'\\x" \o LowerChar(HexChars[(v \div 16) + 1]) \o LowerChar(HexChars[(v % 16) + 1]) \o "'"

\* Printf %d
RECURSIVE Dec(_)
Dec(v) == IF v < 10 THEN DigitChars[v + 1] ELSE Dec(v \div 10) \o DigitChars[(v % 10) + 1]

(***************************************************************************)
(* strconv.ParseUint(s, 0, bitSize), as the Go standard library computes   *)
(* it for text without underscores: the base is taken from the prefix, a   *)
(* character that is no digit of the base is a syntax error (value 0), a   *)
(* value of 2^bitSize or more is a range error (value 2^bitSize - 1).      *)
(***************************************************************************)
DigitValue(c) ==
  IF IndexOf(DigitChars, c) > 0 THEN IndexOf(DigitChars, c) - 1
  ELSE IF IndexOf(HexChars, UpperChar(c)) > 0 THEN IndexOf(HexChars, UpperChar(c)) - 1
  ELSE 99

RECURSIVE ParseDigits(_, _, _, _)
ParseDigits(s, base, max, n) ==
  IF s = <<>> THEN [value |-> n, err |-> "none"]
  ELSE IF DigitValue(Head(s)) >= base THEN [value |-> 0, err |-> "syntax"]
  ELSE IF n * base + DigitValue(Head(s)) > max THEN [value |-> max, err |-> "range"]
  ELSE ParseDigits(Tail(s), base, max, n * base + DigitValue(Head(s)))

ParseUint(s, bitSize) ==
  LET max == Pow(2, bitSize) - 1
  IN IF s = <<>> THEN [value |-> 0, err |-> "syntax"]
     ELSE IF Head(s) = "0"
     THEN IF Len(s) >= 3 /\ LowerChar(s[2]) = "x" THEN ParseDigits(SubSeq(s, 3, Len(s)), 16, max, 0)
          ELSE IF Len(s) >= 3 /\ LowerChar(s[2]) = "b" THEN ParseDigits(SubSeq(s, 3, Len(s)), 2, max, 0)
          ELSE IF Len(s) >= 3 /\ LowerChar(s[2]) = "o" THEN ParseDigits(SubSeq(s, 3, Len(s)), 8, max, 0)
          ELSE ParseDigits(Tail(s), 8, max, 0)
     ELSE ParseDigits(s, 10, max, 0)

(***************************************************************************)
(* The lines typed or queued in the explored runs, and the symbol file.    *)
(***************************************************************************)
Line_empty == <<>>
Line_step == <<"s">>
Line_continue == <<"C">>
Line_next == <<"n">>
Line_quit == <<"q">>
Line_help == <<"?">>
Line_bogus == <<"g","o">>
Line_ba_hex == <<"b","a"," ","$","F","F","F","F">>
Line_ba_dot == <<"b","a"," ",".">>
Line_ba_dup == <<"b","a"," ","d","u","p">>
Line_ba_bad == <<"b","a"," ","z","z">>
Line_ba_noarg == <<"b","a">>
Line_bi_nop == <<"b","i"," ","n","o","p">>
Line_br_x == <<"B","R"," ","x"," ","$","f","f">>
Line_br_a == <<"b","r"," ","A","C"," ","0">>
Line_br_y == <<"b","r"," ","y"," ","2","5","5">>
Line_br_range == <<"b","r"," ","x"," ","2","5","6">>
Line_br_badreg == <<"b","r"," ","p","c"," ","1">>
Line_read_acia == <<"r","e","a","d"," ","$","9","0","1","0">>
Line_r16_dec == <<"r","e","a","d","1","6"," ","1","0","0","0">>
Line_r16_hex == <<"r","e","a","d","1","6"," ","$","1","0","0","0">>
Line_r16_top == <<"R","e","a","d","1","6"," ","0","x","F","F","F","F">>
Line_r16_bad == <<"r","e","a","d","1","6"," ","z","z">>
Line_r32_top == <<"r","e","a","d","3","2"," ","$","f","f","f","e">>

\* what the user may type at a prompt
Lines ==
  { Line_empty, Line_step, Line_continue, Line_next, Line_quit,
    Line_help, Line_bogus, Line_ba_hex, Line_ba_dot, Line_ba_dup,
    Line_ba_bad, Line_ba_noarg, Line_bi_nop, Line_br_x, Line_br_a, Line_br_y,
    Line_br_range, Line_br_badreg,
    Line_read_acia, Line_r16_dec, Line_r16_hex, Line_r16_top, Line_r16_bad,
    Line_r32_top }

\* Debugger.QueueCommands on a debugger whose queue is q
QueueCommands(q, cmds) == q \o cmds

\* the command lists given on the command line (Config.Debug.DebugCommands),
\* queued in one call or in several
Queues ==
  { QueueCommands(<<>>, <<>>),
    QueueCommands(QueueCommands(<<>>, <<Line_br_x>>), <<Line_continue>>),
    QueueCommands(<<>>, <<Line_quit, Line_step>>),
    QueueCommands(<<>>, <<Line_ba_dot, Line_step, Line_next>>) }

\* debugSymbols.addressesFor: the addresses a label names in the symbol file
addressesFor(s) ==
  IF s = <<"r","s","t">> THEN <<65533>>
  ELSE IF s = <<"d","u","p">> THEN <<0, 1>>
  ELSE <<>>

(***************************************************************************)
(* The CPU as the debugger sees it: a decoded instruction has a mnemonic   *)
(* and a byte length; executing it changes the registers and the PC.       *)
(***************************************************************************)
Word == 65536

\* the reset vector of the explored programs
ResetVector == 65533

Instr(name, bytes, mode, op) == [name |-> name, bytes |-> bytes, mode |-> mode, op |-> op]

\* no instruction is being executed
NoInstr == Instr(<<>>, 0, "none", 0)

NOP == Instr(<<"N","O","P">>, 1, "implied", 0)
TAX == Instr(<<"T","A","X">>, 1, "implied", 0)
TAY == Instr(<<"T","A","Y">>, 1, "implied", 0)
LDA == Instr(<<"L","D","A">>, 2, "immediate", 255)
LDX == Instr(<<"L","D","X">>, 2, "immediate", 255)
LDY == Instr(<<"L","D","Y">>, 2, "immediate", 255)
JMP == Instr(<<"J","M","P">>, 3, "absolute", ResetVector)

\* the explored programs lie across the wrap of the address space; at each
\* address they hold one of these instructions
Programs ==
  [ a \in {65533, 65534, 65535, 0, 1} |->
      IF a = 65533 THEN {NOP, LDA}
      ELSE IF a = 65534 THEN {LDX, JMP}
      ELSE IF a = 65535 THEN {TAX, LDY}
      ELSE IF a = 0 THEN {NOP, TAY}
      ELSE {JMP} ]

\* the PC after the instruction has executed
NextPC(i, pc) == IF i.mode = "absolute" THEN i.op ELSE (pc + i.bytes) % Word

\* the fetch and decode of cpu.Step: an instruction a program holds at pc
Decode(pc) == Programs[pc]

VARIABLES
  PC, AC, X, Y,              \* cpu.Cpu registers
  run,                       \* Debugger.run, the free-run flag
  breakAddress, breakAddressValue,
  breakInstruction,
  breakRegA, breakRegAValue,
  breakRegX, breakRegXValue,
  breakRegY, breakRegYValue,
  lastCmd,                   \* <<>> for nil, else <<cmd>>
  inputQueue,
  running,                   \* Machine.Run's local, shared with its goroutine
  gor,                       \* the goroutine: "recv", "log", "done"
  exitChan,                  \* the value a blocked sender offers, or <<>>
  logged,                    \* the exit statuses the goroutine has logged
  status,                    \* where the run loop's thread is
  in,                        \* the instruction handed to BeforeExecute
  printed,                   \* what the last hook or command printed
  fault,                     \* the panic that ended the process, or "none"
  typed,                     \* lines read from the terminal so far
  dispatched,                \* the command commandLoop last switched on
  releasedBy,                \* the command that last released control
  steps,                     \* instructions executed since that release
  stepAfterHalt,             \* a Step began after the halt status was received
  execAfterExit,             \* an instruction executed after exit was dispatched
  lineRead,                  \* <<>> before any read, else <<the line last read>>
  nextBp                     \* the breakpoint of `next`: "none", "armed", "fired",
                             \* or "refired" once it has stopped a later continue

cpuVars == <<PC, AC, X, Y>>
bpVars == <<breakAddress, breakAddressValue, breakInstruction, breakRegA,
            breakRegAValue, breakRegX, breakRegXValue, breakRegY, breakRegYValue>>
chanVars == <<running, gor, exitChan, logged>>
histVars == <<releasedBy, steps, stepAfterHalt, execAfterExit>>
readVars == <<lineRead, nextBp>>
vars == <<cpuVars, run, bpVars, lastCmd, inputQueue, chanVars, status, in,
          printed, fault, typed, dispatched, histVars, readVars>>

(***************************************************************************)
(* The serial controller (acia6551.Acia6551) and the device on its port.   *)
(***************************************************************************)
VARIABLES
  acia,                      \* the Acia6551 struct
  aciaOp,                    \* the last Read or Write of the bus: [op, address, data]
  aciaCalls,                 \* the calls that operation made on the peripheral
  aciaRet,                   \* the byte the last Read returned, else -1
  aciaOps                    \* bus operations so far

aciaVars == <<acia, aciaOp, aciaCalls, aciaRet, aciaOps>>

(***************************************************************************)
(* The SD card on the parallel port (sd.SdCardPeripheral): the card, the   *)
(* SPI slave, and the master that drives the port.                         *)
(***************************************************************************)
VARIABLES
  card,                      \* sd.card: [queue, frame]
  spi,                       \* sd.spi: [clock, index, shift, out, Mosi, Miso, Done]
  sending,                   \* the byte the master is clocking out
  exchanges,                 \* exchanges the master has begun
  sdEvents,                  \* what the last Write did to the card, in order
  sdEdge,                    \* what sd.spi.Write returned in the last Write
  seen                       \* the first exchanges completed: [mosi, miso] each

sdVars == <<card, spi, sending, exchanges, sdEvents, sdEdge, seen>>

(***************************************************************************)
(* The machine's configuration (machine.Config) while Start attaches the   *)
(* hardware entries to the bus.                                            *)
(***************************************************************************)
VARIABLES
  addressBus,                \* c.addressBus: the bindings, in attach order
  memory,                    \* c.memory
  cfgState,                  \* "new", "loop" (inside the range loop), "returned"
  cfgErr,                    \* what Start returned: "nil" or the error
  entry                      \* the hardware entries the loop has taken, in order

cfgVars == <<addressBus, memory, cfgState, cfgErr, entry>>

(***************************************************************************)
(* The standalone program (mainReturningStatus): the main thread and the   *)
(* goroutine that steps the CPU.                                           *)
(***************************************************************************)
VARIABLES
  mainAt,                    \* the main thread: "select", "print", "dump", "exited"
  cpuAt,                     \* the goroutine: "idle" between steps, "step", "send"
  sigChan,                   \* signals buffered in sigChan (capacity 1)
  haltChan,                  \* the status a blocked sender offers on exitChan, or <<>>
  exitStatus,
  stepped,                   \* cpu.Step() calls completed
  shown,                     \* the steps completed when the CPU was printed, or -1
  dumped,                    \* the steps completed when the core was written, or -1
  lateStep                   \* a cpu.Step() has begun after the select returned

mainVars == <<mainAt, cpuAt, sigChan, haltChan, exitStatus, stepped, shown, dumped,
              lateStep>>

\* the state of the devices that the debugger's steps leave alone
deviceVars == <<aciaVars, sdVars, cfgVars, mainVars>>

\* every variable
allVars == <<vars, deviceVars>>

\* bus operations on the serial controller in one run
MaxAciaOps == 2

\* the register offsets
aciaData == 0
aciaStatus == 1
aciaCommand == 2
aciaControl == 3

\* the capability bits
Nop == 0
Read == 1
Write == 2
BiDirectional == 3

\* the bytes written to the registers and delivered by the peripheral
AciaBytes == {0, 2, 4, 8, 12}

\* Go's & on bytes
RECURSIVE And(_, _)
And(a, b) ==
  IF a = 0 \/ b = 0 THEN 0
  ELSE (IF a % 2 = 1 /\ b % 2 = 1 THEN 1 ELSE 0) + 2 * And(a \div 2, b \div 2)

\* Options.Peripheral: nil, a Terminal on two files either of which may be
\* nil, or another implementation of SerialPeripheral
NoPeripheral == [kind |-> "nil", in |-> FALSE, out |-> FALSE, caps |-> 0]
Terminal(fin, fout) == [kind |-> "terminal", in |-> fin, out |-> fout, caps |-> 0]
Device(caps) == [kind |-> "device", in |-> FALSE, out |-> FALSE, caps |-> caps]

Peripherals ==
  {NoPeripheral}
    \cup { Terminal(i, o) : i \in BOOLEAN, o \in BOOLEAN }
    \cup { Device(c) : c \in {Nop, Read, Write, BiDirectional} }

\* Terminal.Capabilities, or what another implementation declares
Capabilities(p) ==
  IF p.kind = "terminal"
  THEN IF p.in /\ p.out THEN BiDirectional
       ELSE IF p.in THEN Read
       ELSE IF p.out THEN Write
       ELSE Nop
  ELSE p.caps

\* what peripheral.Read() may return: (bool, byte, error)
ReadOutcomes(p) ==
  IF p.kind = "terminal"
  THEN IF ~p.in
       THEN { [read |-> FALSE, data |-> 0, err |-> FALSE] }
       ELSE { [read |-> TRUE, data |-> b, err |-> FALSE] : b \in AciaBytes }
              \cup { [read |-> FALSE, data |-> 0, err |-> FALSE],
                     [read |-> FALSE, data |-> 0, err |-> TRUE] }
  ELSE [read : BOOLEAN, data : AciaBytes, err : BOOLEAN]

\* what peripheral.Write(b) may return: (bool, error)
WriteOutcomes(p) ==
  IF p.kind = "terminal"
  THEN IF ~p.out
       THEN { [written |-> FALSE, err |-> FALSE] }
       ELSE { [written |-> TRUE, err |-> FALSE], [written |-> FALSE, err |-> TRUE] }
  ELSE [written : BOOLEAN, err : BOOLEAN]

\* NewAcia6551
NewAcia6551(p) ==
  [rx |-> 0, tx |-> 0, commandData |-> 0, controlData |-> 0,
   rxFull |-> FALSE, txEmpty |-> FALSE, rxIrqEnabled |-> FALSE,
   txIrqEnabled |-> FALSE, overrun |-> FALSE,
   peripheral |-> p,
   capabilities |-> IF p # NoPeripheral THEN Capabilities(p) ELSE 0]

setControl(a, data) == [a EXCEPT !.controlData = data]

\* setCommand: the transmit test compares (data & 0x08) with 1
setCommand(a, data) ==
  [a EXCEPT !.commandData = data,
            !.rxIrqEnabled = (And(data, 2) # 0),
            !.txIrqEnabled = ((And(data, 4) # 0) /\ (And(data, 8) # 1))]

\* Reset without its last call, setCommand(0)
Reset_KeepsCommand(a) ==
  setControl([a EXCEPT !.rx = 0, !.rxFull = FALSE,
                       !.tx = 0, !.txEmpty = TRUE,
                       !.rxIrqEnabled = FALSE, !.txIrqEnabled = FALSE,
                       !.overrun = FALSE], 0)

\* Reset
Reset(a) ==
  setCommand(setControl([a EXCEPT !.rx = 0, !.rxFull = FALSE,
                                  !.tx = 0, !.txEmpty = TRUE,
                                  !.rxIrqEnabled = FALSE, !.txIrqEnabled = FALSE,
                                  !.overrun = FALSE], 0), 0)

statusRegister(a) ==
  (IF a.rxFull THEN 8 ELSE 0) + (IF a.txEmpty THEN 16 ELSE 0)
    + (IF a.overrun THEN 4 ELSE 0)

\* rxRead polls the peripheral under this condition
rxPolls(a) == ~a.rxFull /\ And(a.capabilities, Read) = Read

\* rxRead storing the data whether or not the peripheral read a byte
rxRead_TakesAlways(a, r) ==
  LET b == IF rxPolls(a) THEN [a EXCEPT !.rx = r.data] ELSE a
  IN [b EXCEPT !.overrun = FALSE, !.rxFull = FALSE]

\* rxRead keeping the receiver full after a byte has arrived
rxRead_LatchesFull(a, r) ==
  LET b == IF rxPolls(a) /\ r.read THEN [a EXCEPT !.rx = r.data] ELSE a
  IN [b EXCEPT !.overrun = FALSE, !.rxFull = (rxPolls(a) /\ r.read)]

\* rxRead, r being what the peripheral returned when it was polled
rxRead(a, r) ==
  LET b == IF rxPolls(a) /\ r.read THEN [a EXCEPT !.rx = r.data] ELSE a
  IN [b EXCEPT !.overrun = FALSE, !.rxFull = FALSE]

\* txWrite forwards the byte under this condition
txForwards(a) == And(a.capabilities, Write) = Write

\* txWrite taking an error for a byte not sent
txWrite_OnlyWritten(a, data, w) ==
  IF txForwards(a)
  THEN [a EXCEPT !.tx = data, !.txEmpty = w.written]
  ELSE a

\* txWrite, w being what the peripheral returned when the byte was forwarded
txWrite(a, data, w) ==
  IF txForwards(a)
  THEN [a EXCEPT !.tx = data, !.txEmpty = (w.written \/ w.err)]
  ELSE a

NoAciaOp == [op |-> "none", address |-> 0, data |-> 0]

\* the controller as it is built for a machine with nothing on its port
AciaIdle ==
  /\ acia = NewAcia6551(NoPeripheral)
  /\ aciaOp = NoAciaOp
  /\ aciaCalls = <<>>
  /\ aciaRet = -1
  /\ aciaOps = 0


(***************************************************************************)
(* The SD card peripheral.  sd.card and spi.Slave are described by the     *)
(* specification only: the slave shifts one bit in and one bit out, most   *)
(* significant first, on each rising clock edge, reports every clock       *)
(* change as an edge, and has Done set by the edge that completes a byte;  *)
(* the card keeps a queue of bytes to send and counts the bytes of a       *)
(* six-byte command frame, which it answers with one response byte.        *)
(***************************************************************************)
\* exchanges the master begins in one run
MaxExchanges == 6

\* exchanges whose bytes are recorded
MaxSeen == 3

\* the port bits of the pin map
SclkPin == 1
MosiPin == 2

\* the filler the card sends when it has nothing queued
Filler == 255

\* the R1 response to a command frame
R1Idle == 1

\* the bytes the master sends: idle, the first byte of CMD0, an argument byte
SdBytes == {255, 64, 0}

\* sdCard.queueMisoBytes
queueMisoBytes(c, bytes) == [c EXCEPT !.queue = c.queue \o bytes]

\* newSdCard
newSdCard == [queue |-> <<>>, frame |-> 0]

\* spi.NewSlave, m being what its MISO register holds before anything is queued
NewSlave(m) ==
  [clock |-> FALSE, index |-> 0, shift |-> 0, out |-> 0,
   Mosi |-> 0, Miso |-> m, Done |-> FALSE]

\* NewSdCardPeripheral: the card with its three bytes queued
NewSdCardPeripheral == queueMisoBytes(newSdCard, <<0, 0, 255>>)

\* sdCard.consumeByte: outside a frame a byte 01xxxxxx begins one; the sixth
\* byte of a frame queues the response
consumeByte(c, b) ==
  IF c.frame = 0
  THEN IF b \in 64..127 THEN [c EXCEPT !.frame = 1] ELSE c
  ELSE IF c.frame = 5
       THEN queueMisoBytes([c EXCEPT !.frame = 0], <<R1Idle>>)
       ELSE [c EXCEPT !.frame = c.frame + 1]

\* sdCard.shiftMiso: the byte dequeued, or the filler, and the card after it
shiftMiso(c) ==
  IF c.queue = <<>>
  THEN [byte |-> Filler, card |-> c]
  ELSE [byte |-> Head(c.queue), card |-> [c EXCEPT !.queue = Tail(c.queue)]]

\* Slave.QueueMisoBits: the byte the next exchange shifts out
QueueMisoBits(sl, b) == [sl EXCEPT !.Miso = b]

\* Slave.Write: whether the clock changed, and the slave after the write
SlaveWrite(sl, data) ==
  LET clk == And(data, SclkPin) # 0
      bit == IF And(data, MosiPin) # 0 THEN 1 ELSE 0
      outBit == (sl.Miso \div Pow(2, 7 - sl.index)) % 2
  IN IF clk = sl.clock
     THEN [edge |-> FALSE, slave |-> sl]
     ELSE IF ~clk
     THEN [edge |-> TRUE, slave |-> [sl EXCEPT !.clock = FALSE, !.Done = FALSE]]
     ELSE IF sl.index = 7
     THEN [edge |-> TRUE,
           slave |-> [sl EXCEPT !.clock = TRUE, !.index = 0, !.shift = 0, !.out = 0,
                                !.Mosi = sl.shift * 2 + bit,
                                !.Done = TRUE]]
     ELSE [edge |-> TRUE,
           slave |-> [sl EXCEPT !.clock = TRUE, !.index = sl.index + 1,
                                !.shift = sl.shift * 2 + bit,
                                !.out = sl.out * 2 + outBit,
                                !.Done = FALSE]]

\* the byte an exchange has shifted out when its last bit is clocked
ShiftedOut(sl) == sl.out * 2 + (sl.Miso % 2)

\* SdCardPeripheral.Write with the byte loaded before the byte is consumed
sdWrite_ShiftFirst(c, sl, data) ==
  LET w == SlaveWrite(sl, data)
  IN IF w.edge /\ w.slave.Done
     THEN LET m == shiftMiso(c)
          IN [card |-> consumeByte(m.card, w.slave.Mosi),
              spi |-> QueueMisoBits(w.slave, m.byte),
              edge |-> w.edge,
              events |-> << <<"consumeByte", w.slave.Mosi>>, <<"shiftMiso", m.byte>> >>]
     ELSE [card |-> c, spi |-> w.slave, edge |-> w.edge, events |-> <<>>]

\* SdCardPeripheral.Write
sdWrite(c, sl, data) ==
  LET w == SlaveWrite(sl, data)
  IN IF w.edge /\ w.slave.Done
     THEN LET c1 == consumeByte(c, w.slave.Mosi)
              m == shiftMiso(c1)
          IN [card |-> m.card,
              spi |-> QueueMisoBits(w.slave, m.byte),
              edge |-> w.edge,
              events |-> << <<"consumeByte", w.slave.Mosi>>, <<"shiftMiso", m.byte>> >>]
     ELSE [card |-> c, spi |-> w.slave, edge |-> w.edge, events |-> <<>>]

\* the peripheral as it is when nothing drives the port
SdIdle ==
  /\ card = NewSdCardPeripheral
  /\ spi = NewSlave(0)
  /\ sending = Filler
  /\ exchanges = 0
  /\ sdEvents = <<>>
  /\ sdEdge = FALSE
  /\ seen = <<>>


\* the port byte that puts clk on the clock pin and bit k of byte b on MOSI
PortByte(clk, b, k) ==
  (IF clk THEN SclkPin ELSE 0) + (IF (b \div Pow(2, 7 - k)) % 2 = 1 THEN MosiPin ELSE 0)

\* one Write of the port, the master having chosen byte b for this exchange
Drives(b, data) ==
  LET r == sdWrite(card, spi, data)
  IN /\ sending' = b
     /\ card' = r.card
     /\ spi' = r.spi
     /\ sdEdge' = r.edge
     /\ sdEvents' = r.events
     /\ seen' = IF r.edge /\ r.spi.Done /\ Len(seen) < MaxSeen
                THEN Append(seen, [mosi |-> r.spi.Mosi, miso |-> ShiftedOut(spi)])
                ELSE seen

\* the master begins an exchange: it picks the byte and raises the clock on
\* its first bit
SdBegin ==
  /\ ~spi.clock /\ spi.index = 0
  /\ exchanges < MaxExchanges
  /\ exchanges' = exchanges + 1
  /\ \E b \in SdBytes : Drives(b, PortByte(TRUE, b, 0))
  /\ UNCHANGED <<vars, aciaVars, cfgVars, mainVars>>

\* the master raises the clock on a later bit of the byte
SdRise ==
  /\ ~spi.clock /\ spi.index > 0
  /\ Drives(sending, PortByte(TRUE, sending, spi.index))
  /\ UNCHANGED <<vars, aciaVars, cfgVars, mainVars, exchanges>>

\* the master lowers the clock
SdFall ==
  /\ spi.clock
  /\ Drives(sending, PortByte(FALSE, sending, spi.index))
  /\ UNCHANGED <<vars, aciaVars, cfgVars, mainVars, exchanges>>

\* the port is written with the clock line as it was
SdHold ==
  /\ sdEdge
  /\ Drives(sending, PortByte(spi.clock, sending, spi.index))
  /\ UNCHANGED <<vars, aciaVars, cfgVars, mainVars, exchanges>>

SdNext == SdBegin \/ SdRise \/ SdFall \/ SdHold

(***************************************************************************)
(* Config.Start.  The bus (bus.CreateBus, Bus.Attach), memory.RomFromFile  *)
(* and the sizes of memory.Ram and the VIA are described by the            *)
(* specification only: Attach fails, changing nothing, when the range of   *)
(* the device overlaps a binding.                                          *)
(***************************************************************************)
\* hardware entries in the configuration file
MaxHardware == 3

RamSize == 32768
RomSize == 4096
ViaSize == 16
\* Acia6551.Size
AciaSize == 4

\* encoding/hex.DecodeString: the bytes, or an error for a character that is
\* no hex digit or for an odd length
RECURSIVE DecodePairs(_)
DecodePairs(t) ==
  IF t = <<>> THEN [bytes |-> <<>>, err |-> FALSE]
  ELSE IF Len(t) = 1
  THEN [bytes |-> <<>>, err |-> TRUE]
  ELSE IF DigitValue(t[1]) > 15 \/ DigitValue(t[2]) > 15
  THEN [bytes |-> <<>>, err |-> TRUE]
  ELSE LET rest == DecodePairs(SubSeq(t, 3, Len(t)))
       IN [bytes |-> <<DigitValue(t[1]) * 16 + DigitValue(t[2])>> \o rest.bytes,
           err |-> rest.err]

DecodeString(t) == DecodePairs(t)

\* a Hardware entry: each chip field is <<>> for nil or holds the chip
Hardware(name, address, ram, rom, aciaChip, via) ==
  [Name |-> name, Address |-> address, Ram |-> ram, Rom |-> rom,
   Acia6551 |-> aciaChip, Via6522 |-> via]

TheRam(size) == <<[Size |-> size]>>
TheRom(filename) == <<[Filename |-> filename]>>
TheAcia == <<[Peripheral |-> "console"]>>
TheVia == <<[DumpAscii |-> FALSE, DumpBinary |-> FALSE]>>

\* the entries a configuration file is made of here
HardwareEntries ==
  { Hardware("ram", <<"0","0","0","0">>, TheRam(32768), <<>>, <<>>, <<>>),
    Hardware("small", <<"0","0","0","0">>, TheRam(512), <<>>, <<>>, <<>>),
    Hardware("kernal", <<"f","0","0","0">>, <<>>, TheRom("kernal.rom"), <<>>, <<>>),
    Hardware("lost", <<"F","0","0","0">>, <<>>, TheRom("missing.rom"), <<>>, <<>>),
    Hardware("acia", <<"9","0","0","0">>, <<>>, <<>>, TheAcia, <<>>),
    Hardware("via", <<"9","0","0","0">>, <<>>, <<>>, <<>>, TheVia),
    Hardware("both", <<"9","0","1","0">>, <<>>, <<>>, TheAcia, TheVia),
    Hardware("end", <<"7","F","F","8">>, <<>>, <<>>, <<>>, TheVia),
    Hardware("none", <<"A","0","0","0">>, <<>>, <<>>, <<>>, <<>>),
    Hardware("blank", <<>>, TheRam(32768), <<>>, <<>>, <<>>),
    Hardware("nothex", <<"z","z","0","0">>, <<>>, <<>>, TheAcia, <<>>),
    Hardware("odd", <<"F","0","0">>, <<>>, <<>>, TheAcia, <<>>),
    Hardware("one", <<"9","0">>, <<>>, <<>>, TheAcia, <<>>),
    Hardware("three", <<"0","0","9","0","0","0">>, <<>>, <<>>, TheAcia, <<>>) }

\* RamChip.Configure
RamChipConfigure(c, n) ==
  IF c.Size < 1024
  THEN [m |-> <<>>, err |-> "Invalid ram size"]
  ELSE [m |-> <<[kind |-> "ram", id |-> n, size |-> RamSize]>>, err |-> "nil"]

\* RomChip.Configure: memory.RomFromFile fails for a file that cannot be read
RomChipConfigure(c, n) ==
  IF c.Filename = "missing.rom"
  THEN [m |-> <<>>, err |-> "open"]
  ELSE [m |-> <<[kind |-> "rom", id |-> n, size |-> RomSize]>>, err |-> "nil"]

\* Acia6551Chip.Configure
Acia6551ChipConfigure(c, n) ==
  [m |-> <<[kind |-> "acia", id |-> n, size |-> AciaSize]>>, err |-> "nil"]

\* Via6522Chip.Configure
Via6522ChipConfigure(c, n) ==
  [m |-> <<[kind |-> "via", id |-> n, size |-> ViaSize]>>, err |-> "nil"]

\* Bus.Attach: the bus with the binding added, or an error and the bus as it was
BusAttach(b, m, name, address) ==
  IF \E k \in 1..Len(b) :
       /\ address < b[k].address + b[k].m.size
       /\ b[k].address < address + m.size
  THEN [bus |-> b, err |-> "overlap"]
  ELSE [bus |-> Append(b, [m |-> m, name |-> name, address |-> address]), err |-> "nil"]

\* Config.attach recording the device before the bus has accepted it
attach_RecordsFirst(b, mem, name, address, conf) ==
  IF conf.err # "nil"
  THEN [bus |-> b, memory |-> mem, err |-> conf.err]
  ELSE LET a == BusAttach(b, conf.m[1], name, address)
       IN [bus |-> a.bus, memory |-> Append(mem, conf.m[1]), err |-> a.err]

\* Config.attach, conf being what chip.Configure returned
attach(b, mem, name, address, conf) ==
  IF conf.err # "nil"
  THEN [bus |-> b, memory |-> mem, err |-> conf.err]
  ELSE LET a == BusAttach(b, conf.m[1], name, address)
       IN IF a.err # "nil"
          THEN [bus |-> b, memory |-> mem, err |-> a.err]
          ELSE [bus |-> a.bus, memory |-> Append(mem, conf.m[1]), err |-> "nil"]

\* one turn of the range loop of Config.Start on entry h, n numbering the device
StartEntry(b, mem, h, n) ==
  IF h.Address = <<>>
  THEN [bus |-> b, memory |-> mem, err |-> "Invalid Hardware entry"]
  ELSE LET d == DecodeString(h.Address)
       IN IF d.err
          THEN [bus |-> b, memory |-> mem, err |-> "hex"]
          ELSE IF Len(d.bytes) # 2
          THEN [bus |-> b, memory |-> mem, err |-> "Invalid Address"]
          ELSE LET address == d.bytes[1] * 256 + d.bytes[2]
               IN IF h.Ram # <<>>
                  THEN attach(b, mem, h.Name, address, RamChipConfigure(h.Ram[1], n))
                  ELSE IF h.Rom # <<>>
                  THEN attach(b, mem, h.Name, address, RomChipConfigure(h.Rom[1], n))
                  ELSE IF h.Acia6551 # <<>>
                  THEN attach(b, mem, h.Name, address, Acia6551ChipConfigure(h.Acia6551[1], n))
                  ELSE IF h.Via6522 # <<>>
                  THEN attach(b, mem, h.Name, address, Via6522ChipConfigure(h.Via6522[1], n))
                  ELSE [bus |-> b, memory |-> mem, err |-> "No chip defined"]

\* the configuration before Start
CfgIdle ==
  /\ addressBus = <<>>
  /\ memory = <<>>
  /\ cfgState = "new"
  /\ cfgErr = "nil"
  /\ entry = <<>>

(***************************************************************************)
(* mainReturningStatus from cpu.Reset() on.  A halt status is sent from    *)
(* inside cpu.Step() (by the debugger's exit command, which runs in the    *)
(* monitor hook): the step offers the status on the unbuffered exit        *)
(* channel and goes on once it has been taken.                             *)
(***************************************************************************)
\* cpu.Step() calls in one run
MaxMainSteps == 4

MainIdle ==
  /\ mainAt = "select"
  /\ cpuAt = "idle"
  /\ sigChan = 0
  /\ haltChan = <<>>
  /\ exitStatus = 0
  /\ stepped = 0
  /\ shown = -1
  /\ dumped = -1
  /\ lateStep = FALSE

\* the main thread has left the select and has not yet called os.Exit
Reporting == mainAt \in {"print", "dump"}

\* go func() { for { cpu.Step() } }: a step begins
MainStepBegins ==
  /\ mainAt # "exited"
  /\ cpuAt = "idle"
  /\ stepped < MaxMainSteps
  /\ cpuAt' = "step"
  /\ lateStep' = (lateStep \/ Reporting)
  /\ UNCHANGED <<mainAt, sigChan, haltChan, exitStatus, stepped, shown, dumped>>
  /\ UNCHANGED <<vars, aciaVars, sdVars, cfgVars>>

\* the step offers a halt status: ExitChan <- 0
MainStepOffers ==
  /\ mainAt # "exited"
  /\ cpuAt = "step"
  /\ cpuAt' = "send"
  /\ haltChan' = <<0>>
  /\ UNCHANGED <<mainAt, sigChan, exitStatus, stepped, shown, dumped, lateStep>>
  /\ UNCHANGED <<vars, aciaVars, sdVars, cfgVars>>

\* the step ends
MainStepEnds ==
  /\ mainAt # "exited"
  /\ cpuAt = "step"
  /\ stepped' = stepped + 1
  /\ cpuAt' = "idle"
  /\ UNCHANGED <<mainAt, sigChan, haltChan, exitStatus, shown, dumped, lateStep>>
  /\ UNCHANGED <<vars, aciaVars, sdVars, cfgVars>>

\* signal.Notify(sigChan, os.Interrupt): an interrupt is buffered, or dropped
\* when the buffer is full
MainInterrupt ==
  /\ mainAt # "exited"
  /\ sigChan = 0
  /\ sigChan' = 1
  /\ UNCHANGED <<mainAt, cpuAt, haltChan, exitStatus, stepped, shown, dumped, lateStep>>
  /\ UNCHANGED <<vars, aciaVars, sdVars, cfgVars>>

\* case exitStatus = <-exitChan: the sender goes on with its step
MainSelectsExit ==
  /\ mainAt = "select"
  /\ cpuAt = "send"
  /\ exitStatus' = haltChan[1]
  /\ haltChan' = <<>>
  /\ cpuAt' = "step"
  /\ mainAt' = "print"
  /\ UNCHANGED <<sigChan, stepped, shown, dumped, lateStep>>
  /\ UNCHANGED <<vars, aciaVars, sdVars, cfgVars>>

\* case sig = <-sigChan: exitStatus = 1
MainSelectsSignal ==
  /\ mainAt = "select"
  /\ sigChan = 1
  /\ sigChan' = 0
  /\ exitStatus' = 1
  /\ mainAt' = "print"
  /\ UNCHANGED <<cpuAt, haltChan, stepped, shown, dumped, lateStep>>
  /\ UNCHANGED <<vars, aciaVars, sdVars, cfgVars>>

\* fmt.Println(cpu)
MainPrints ==
  /\ mainAt = "print"
  /\ shown' = stepped
  /\ mainAt' = "dump"
  /\ UNCHANGED <<cpuAt, sigChan, haltChan, exitStatus, stepped, dumped, lateStep>>
  /\ UNCHANGED <<vars, aciaVars, sdVars, cfgVars>>

\* ram.Dump("core"); os.Exit(exitStatus)
MainDumps ==
  /\ mainAt = "dump"
  /\ dumped' = stepped
  /\ mainAt' = "exited"
  /\ UNCHANGED <<cpuAt, sigChan, haltChan, exitStatus, stepped, shown, lateStep>>
  /\ UNCHANGED <<vars, aciaVars, sdVars, cfgVars>>

MainNext ==
  \/ MainStepBegins
  \/ MainStepOffers
  \/ MainStepEnds
  \/ MainInterrupt
  \/ MainSelectsExit
  \/ MainSelectsSignal
  \/ MainPrints
  \/ MainDumps

DevicesIdle == AciaIdle /\ SdIdle /\ CfgIdle /\ MainIdle

\* Start up to the loop: bus.CreateBus succeeds or Start returns its error
CfgCreateBus ==
  /\ cfgState = "new"
  /\ \E ok \in BOOLEAN :
       /\ cfgState' = IF ok THEN "loop" ELSE "returned"
       /\ cfgErr' = IF ok THEN "nil" ELSE "bus"
  /\ UNCHANGED <<vars, aciaVars, sdVars, mainVars, addressBus, memory, entry>>

\* the loop takes the next entry of c.Hardware
CfgEntry ==
  /\ cfgState = "loop"
  /\ Len(entry) < MaxHardware
  /\ \E h \in HardwareEntries :
       LET r == StartEntry(addressBus, memory, h, Len(entry) + 1)
       IN /\ entry' = Append(entry, h)
          /\ addressBus' = r.bus
          /\ memory' = r.memory
          /\ cfgErr' = r.err
          /\ cfgState' = IF r.err = "nil" THEN "loop" ELSE "returned"
  /\ UNCHANGED <<vars, aciaVars, sdVars, mainVars>>

\* c.Hardware has no more entries: return nil
CfgReturn ==
  /\ cfgState = "loop"
  /\ cfgState' = "returned"
  /\ cfgErr' = "nil"
  /\ UNCHANGED <<vars, aciaVars, sdVars, mainVars, addressBus, memory, entry>>

CfgNext == CfgCreateBus \/ CfgEntry \/ CfgReturn

\* Acia6551.Write(address, data)
AciaWrite ==
  /\ aciaOps < MaxAciaOps
  /\ \E address \in aciaData..aciaControl, data \in AciaBytes :
       /\ aciaOp' = [op |-> "Write", address |-> address, data |-> data]
       /\ IF address = aciaData
          THEN IF txForwards(acia)
               THEN \E w \in WriteOutcomes(acia.peripheral) :
                      /\ acia' = txWrite(acia, data, w)
                      /\ aciaCalls' = <<[fn |-> "Write", arg |-> data, out |-> w]>>
               ELSE /\ acia' = txWrite(acia, data, [written |-> FALSE, err |-> FALSE])
                    /\ aciaCalls' = <<>>
          ELSE /\ acia' = IF address = aciaStatus THEN Reset(acia)
                          ELSE IF address = aciaCommand THEN setCommand(acia, data)
                          ELSE setControl(acia, data)
               /\ aciaCalls' = <<>>
  /\ aciaRet' = -1
  /\ aciaOps' = aciaOps + 1
  /\ UNCHANGED <<vars, sdVars, cfgVars, mainVars>>

\* Acia6551.Read(address)
AciaRead ==
  /\ aciaOps < MaxAciaOps
  /\ \E address \in aciaData..aciaControl :
       /\ aciaOp' = [op |-> "Read", address |-> address, data |-> 0]
       /\ IF address = aciaData
          THEN IF rxPolls(acia)
               THEN \E r \in ReadOutcomes(acia.peripheral) :
                      /\ acia' = rxRead(acia, r)
                      /\ aciaCalls' = <<[fn |-> "Read", arg |-> 0, out |-> r]>>
                      /\ aciaRet' = rxRead(acia, r).rx
               ELSE /\ acia' = rxRead(acia, [read |-> FALSE, data |-> 0, err |-> FALSE])
                    /\ aciaCalls' = <<>>
                    /\ aciaRet' = acia.rx
          ELSE /\ acia' = acia
               /\ aciaCalls' = <<>>
               /\ aciaRet' = IF address = aciaStatus THEN statusRegister(acia)
                             ELSE IF address = aciaCommand THEN acia.commandData
                             ELSE acia.controlData
  /\ aciaOps' = aciaOps + 1
  /\ UNCHANGED <<vars, sdVars, cfgVars, mainVars>>

AciaNext == AciaWrite \/ AciaRead

(***************************************************************************)
(* Command identifiers.                                                    *)
(***************************************************************************)
debugCmdNone == 0
debugCmdBreakAddress == 1
debugCmdBreakInstruction == 2
debugCmdBreakRegister == 3
debugCmdContinue == 4
debugCmdExit == 5
debugCmdHelp == 6
debugCmdInvalid == 7
debugCmdNext == 8
debugCmdRead == 9
debugCmdRead16 == 10
debugCmdRead32 == 11
debugCmdStep == 12

\* the switch of getCommand on the lower-cased first field
CommandId(cmdString) ==
  IF cmdString = <<>> THEN debugCmdNone
  ELSE IF cmdString \in { <<"b","r","e","a","k","-","a","d","d","r","e","s","s">>,
                          <<"b","r","e","a","k","-","a","d","d","r">>, <<"b","a">> }
       THEN debugCmdBreakAddress
  ELSE IF cmdString \in { <<"b","r","e","a","k","-","i","n","s","t","r","u","c","t","i","o","n">>,
                          <<"b","i">> }
       THEN debugCmdBreakInstruction
  ELSE IF cmdString \in { <<"b","r","e","a","k","-","r","e","g","i","s","t","e","r">>,
                          <<"b","r","e","a","k","-","r","e","g">>, <<"b","r">> }
       THEN debugCmdBreakRegister
  ELSE IF cmdString \in { <<"c","o","n","t","i","n","u","e">>, <<"c">> } THEN debugCmdContinue
  ELSE IF cmdString \in { <<"e","x","i","t">>, <<"q","u","i","t">>, <<"q">> } THEN debugCmdExit
  ELSE IF cmdString \in { <<"h","e","l","p">>, <<"h">>, <<"?">> } THEN debugCmdHelp
  ELSE IF cmdString \in { <<"n","e","x","t">>, <<"n">> } THEN debugCmdNext
  ELSE IF cmdString = <<"r","e","a","d">> THEN debugCmdRead
  ELSE IF cmdString = <<"r","e","a","d","1","6">> THEN debugCmdRead16
  ELSE IF cmdString = <<"r","e","a","d","3","2">> THEN debugCmdRead32
  ELSE IF cmdString \in { <<"s","t","e","p">>, <<"s","t">>, <<"s">> } THEN debugCmdStep
  ELSE debugCmdInvalid

Cmd(id, input, arguments) == [id |-> id, input |-> input, arguments |-> arguments]

\* getCommand's reading of a line: the command its fields spell
ParseLine(input) ==
  LET fields == Fields(input)
      cmdString == IF Len(fields) >= 1 THEN ToLower(fields[1]) ELSE <<>>
      arguments == IF Len(fields) >= 2 THEN Tail(fields) ELSE <<>>
  IN Cmd(CommandId(cmdString), input, arguments)

AllLines == Lines \cup UNION { { q[k] : k \in 1..Len(q) } : q \in Queues }

\* ParseLine, tabulated over the lines of the explored runs
Parsed == [l \in AllLines |-> ParseLine(l)]

\* getCommand with the repeat of the previous command left out
getCommand_NoRepeat(input, last) ==
  [c |-> Parsed[input], last |-> <<Parsed[input]>>]

\* getCommand after the line is read: the command to dispatch and the new lastCmd
getCommand(input, last) ==
  IF Parsed[input].id = debugCmdNone /\ last # <<>>
  THEN [c |-> last[1], last |-> last]
  ELSE [c |-> Parsed[input], last |-> <<Parsed[input]>>]

\* parseUint8
parseUint8(s) == ParseUint(ReplaceDollar(s), 8)

\* parseUint16, with the PC of the moment
parseUint16(s, pc) ==
  IF s = <<".">> THEN [value |-> pc, err |-> "none"]
  ELSE IF Len(addressesFor(s)) = 1 THEN [value |-> addressesFor(s)[1], err |-> "none"]
  ELSE IF Len(addressesFor(s)) > 1 THEN [value |-> 0, err |-> "ambiguous"]
  ELSE ParseUint(ReplaceDollar(s), 16)

(***************************************************************************)
(* Breakpoints.                                                            *)
(***************************************************************************)
\* checkRegBreakpoint comparing the register whether or not the breakpoint is on
checkRegBreakpoint_IgnoresOn(regStr, on, expect, actual) ==
  IF actual = expect
  THEN [hit |-> TRUE,
        out |-> <<"Breakpoint for " \o regStr \o " = $" \o Hex2(expect)
                  \o " (" \o Dec(expect) \o ")">>]
  ELSE [hit |-> FALSE, out |-> <<>>]

\* checkRegBreakpoint: whether it fires, and what it prints
checkRegBreakpoint(regStr, on, expect, actual) ==
  IF on /\ actual = expect
  THEN [hit |-> TRUE,
        out |-> <<"Breakpoint for " \o regStr \o " = $" \o Hex2(expect)
                  \o " (" \o Dec(expect) \o ")">>]
  ELSE [hit |-> FALSE, out |-> <<>>]

\* doBreakpoints checking the registers only while free-running
doBreakpoints_OnlyFreeRun(i) ==
  LET byName == i.name = breakInstruction
      byAddr == breakAddress /\ PC = breakAddressValue
      a == checkRegBreakpoint("A", run /\ breakRegA, breakRegAValue, AC)
      x == checkRegBreakpoint("X", run /\ breakRegX, breakRegXValue, X)
      y == checkRegBreakpoint("Y", run /\ breakRegY, breakRegYValue, Y)
  IN [run |-> IF byName \/ byAddr \/ a.hit \/ x.hit \/ y.hit THEN FALSE ELSE run,
      out |-> (IF byName THEN <<"Breakpoint for instruction " \o Text(i.name)>> ELSE <<>>)
              \o (IF byAddr
                  THEN <<"Breakpoint for PC address = $" \o Hex4(breakAddressValue)>>
                  ELSE <<>>)
              \o a.out \o x.out \o y.out]

\* doBreakpoints: the free-run flag and the notices after the checks
doBreakpoints(i) ==
  LET byName == i.name = breakInstruction
      byAddr == breakAddress /\ PC = breakAddressValue
      a == checkRegBreakpoint("A", breakRegA, breakRegAValue, AC)
      x == checkRegBreakpoint("X", breakRegX, breakRegXValue, X)
      y == checkRegBreakpoint("Y", breakRegY, breakRegYValue, Y)
  IN [run |-> IF byName \/ byAddr \/ a.hit \/ x.hit \/ y.hit THEN FALSE ELSE run,
      out |-> (IF byName THEN <<"Breakpoint for instruction " \o Text(i.name)>> ELSE <<>>)
              \o (IF byAddr
                  THEN <<"Breakpoint for PC address = $" \o Hex4(breakAddressValue)>>
                  ELSE <<>>)
              \o a.out \o x.out \o y.out]

(***************************************************************************)
(* The initial state: Machine.Start has built the CPU and the debugger and *)
(* queued the configured commands; Machine.Run has reset the CPU, set      *)
(* running and started the goroutine that waits on the halt channel.       *)
(***************************************************************************)
DebuggerInit ==
  /\ PC = ResetVector
  /\ AC = 0 /\ X = 0 /\ Y = 0
  /\ run = FALSE
  /\ breakAddress = FALSE /\ breakAddressValue = 0
  /\ breakInstruction = <<>>
  /\ breakRegA = FALSE /\ breakRegAValue = 0
  /\ breakRegX = FALSE /\ breakRegXValue = 0
  /\ breakRegY = FALSE /\ breakRegYValue = 0
  /\ lastCmd = <<>>
  /\ inputQueue \in Queues
  /\ running = TRUE
  /\ gor = "recv"
  /\ exitChan = <<>>
  /\ logged = <<>>
  /\ status = "loop"
  /\ in = NoInstr
  /\ printed = <<>>
  /\ fault = "none"
  /\ typed = 0
  /\ dispatched = <<>>
  /\ releasedBy = "none"
  /\ steps = 0
  /\ stepAfterHalt = FALSE
  /\ execAfterExit = FALSE
  /\ lineRead = <<>>
  /\ nextBp = "none"

\* the debugger's runs: the devices stay as they are built
Init == DebuggerInit /\ DevicesIdle

\* the debugger as it is built, with nothing queued
DebuggerIdle == DebuggerInit /\ inputQueue = <<>>

\* the serial controller's runs: built by NewAcia6551 for any peripheral
AciaInit ==
  /\ DebuggerIdle
  /\ SdIdle
  /\ CfgIdle
  /\ MainIdle
  /\ acia \in { NewAcia6551(p) : p \in Peripherals }
  /\ aciaOp = NoAciaOp
  /\ aciaCalls = <<>>
  /\ aciaRet = -1
  /\ aciaOps = 0

AciaSpec == AciaInit /\ [][AciaNext]_allVars

\* the SD card's runs: built by NewSdCardPeripheral, the slave's MISO register
\* holding zeros or ones
SdInit ==
  /\ DebuggerIdle
  /\ AciaIdle
  /\ CfgIdle
  /\ MainIdle
  /\ card = NewSdCardPeripheral
  /\ spi \in { NewSlave(m) : m \in {0, Filler} }
  /\ sending = Filler
  /\ exchanges = 0
  /\ sdEvents = <<>>
  /\ sdEdge = FALSE
  /\ seen = <<>>

SdSpec == SdInit /\ [][SdNext]_allVars

\* Config.Start's runs
CfgInit == DebuggerIdle /\ AciaIdle /\ SdIdle /\ CfgIdle /\ MainIdle

CfgSpec == CfgInit /\ [][CfgNext]_allVars

\* the standalone program's runs
MainInit == DebuggerIdle /\ AciaIdle /\ SdIdle /\ CfgIdle /\ MainIdle

MainSpec == MainInit /\ [][MainNext]_allVars

\* the debugger's runs on a machine whose serial controller has the console
\* on its port (Acia6551Chip.Configure with peripheral "console")
ConsoleInit ==
  /\ DebuggerIdle
  /\ SdIdle
  /\ CfgIdle
  /\ MainIdle
  /\ acia = NewAcia6551(Terminal(TRUE, TRUE))
  /\ aciaOp = NoAciaOp
  /\ aciaCalls = <<>>
  /\ aciaRet = -1
  /\ aciaOps = 0

(***************************************************************************)
(* Machine.Run's loop.  The loop reads running with no synchronisation     *)
(* while the goroutine writes it: once the write has happened the read may *)
(* return either value.                                                    *)
(***************************************************************************)
LoopReads == IF running THEN {TRUE} ELSE {TRUE, FALSE}

\* BeforeExecute with the test of the free-run flag left out
BeforeExecute_AlwaysPrompts(i) ==
  LET b == doBreakpoints(i)
  IN /\ run' = b.run
     /\ printed' = b.out
     /\ status' = "prompt"

\* BeforeExecute up to its return or its first prompt
BeforeExecute(i) ==
  LET b == doBreakpoints(i)
  IN /\ run' = b.run
     /\ printed' = b.out
     /\ status' = IF b.run THEN "execute" ELSE "prompt"

\* `for running { m.cpu.Step() }`: the test, the decode and the monitor hook
Step ==
  /\ status = "loop"
  /\ UNCHANGED deviceVars
  /\ TRUE \in LoopReads
  /\ \E i \in Decode(PC) :
       /\ in' = i
       /\ BeforeExecute(i)
  /\ stepAfterHalt' = (stepAfterHalt \/ gor # "recv")
  /\ nextBp' = IF breakAddress /\ PC = breakAddressValue
               THEN IF nextBp = "armed" THEN "fired"
                    ELSE IF nextBp = "fired" /\ run /\ releasedBy = "continue"
                         THEN "refired" ELSE nextBp
               ELSE nextBp
  /\ UNCHANGED <<cpuVars, bpVars, lastCmd, inputQueue, chanVars, fault, typed,
                 dispatched, releasedBy, steps, execAfterExit, lineRead>>

\* the loop test fails and Run returns
RunReturns ==
  /\ status = "loop"
  /\ UNCHANGED deviceVars
  /\ FALSE \in LoopReads
  /\ status' = "returned"
  /\ UNCHANGED <<cpuVars, run, bpVars, lastCmd, inputQueue, chanVars, in, printed,
                 fault, typed, dispatched, histVars, readVars>>

\* the rest of cpu.Step: the instruction executes
Execute ==
  /\ status = "execute"
  /\ UNCHANGED deviceVars
  /\ PC' = NextPC(in, PC)
  /\ AC' = IF in.name = <<"L","D","A">> THEN in.op ELSE AC
  /\ X' = IF in.name = <<"L","D","X">> THEN in.op
          ELSE IF in.name = <<"T","A","X">> THEN AC ELSE X
  /\ Y' = IF in.name = <<"L","D","Y">> THEN in.op
          ELSE IF in.name = <<"T","A","Y">> THEN AC ELSE Y
  /\ status' = "loop"
  /\ steps' = IF steps < MaxSteps THEN steps + 1 ELSE steps
  /\ execAfterExit' = (execAfterExit \/ gor # "recv")
  /\ in' = NoInstr
  /\ printed' = <<>>
  /\ UNCHANGED <<run, bpVars, lastCmd, inputQueue, chanVars, fault,
                 typed, dispatched, releasedBy, stepAfterHalt, readVars>>

\* the goroutine: exitStatus := <-m.exitChan; log.Println
Receive ==
  /\ gor = "recv"
  /\ UNCHANGED deviceVars
  /\ status = "send"
  /\ logged' = Append(logged, exitChan[1])
  /\ exitChan' = <<>>
  /\ gor' = "log"
  /\ status' = "prompt"
  /\ UNCHANGED <<cpuVars, run, bpVars, lastCmd, inputQueue, running, in, printed,
                 fault, typed, dispatched, histVars, readVars>>

\* the goroutine: running = false
StoreRunning ==
  /\ gor = "log"
  /\ UNCHANGED deviceVars
  /\ running' = FALSE
  /\ gor' = "done"
  /\ UNCHANGED <<cpuVars, run, bpVars, lastCmd, inputQueue, exitChan, logged,
                 status, in, printed, fault, typed, dispatched, histVars, readVars>>

(***************************************************************************)
(* commandLoop: one line is taken from the queue or read from the          *)
(* terminal, getCommand turns it into a command, and the switch runs it.   *)
(***************************************************************************)
\* getCommand taking the line queued last
TakeLine_FromEnd(line) ==
  /\ status = "prompt"
  /\ IF inputQueue # <<>>
     THEN /\ line = inputQueue[Len(inputQueue)]
          /\ inputQueue' = SubSeq(inputQueue, 1, Len(inputQueue) - 1)
          /\ typed' = typed
     ELSE /\ typed < MaxTyped
          /\ line \in Lines
          /\ inputQueue' = inputQueue
          /\ typed' = typed + 1

\* the first half of getCommand: where the line comes from
TakeLine(line) ==
  /\ status = "prompt"
  /\ IF inputQueue # <<>>
     THEN /\ line = Head(inputQueue)
          /\ inputQueue' = Tail(inputQueue)
          /\ typed' = typed
     ELSE /\ typed < MaxTyped
          /\ line \in Lines
          /\ inputQueue' = inputQueue
          /\ typed' = typed + 1

\* the lines that can become a command of kind id: those that spell it, and
\* the empty ones, which repeat the command before
LinesFor ==
  [id \in debugCmdNone..debugCmdStep |->
     { l \in AllLines : Parsed[l].id \in {id, debugCmdNone} }]

\* a line is read and becomes command c of kind id
Reads(line, id) ==
  /\ TakeLine(line)
  /\ getCommand(line, lastCmd).c.id = id
  /\ lastCmd' = getCommand(line, lastCmd).last
  /\ dispatched' = <<getCommand(line, lastCmd).c>>
  /\ lineRead' = <<line>>

Args(line) == getCommand(line, lastCmd).c.arguments

\* the command leaves the debugger at the prompt
Stays == status' = "prompt" /\ fault' = "none"

\* the command panics: nothing recovers it, the process ends
Panics(why) == status' = "panicked" /\ fault' = why

\* control goes back to cpu.Step, which executes the instruction
Releases(by) == status' = "execute" /\ fault' = "none" /\ releasedBy' = by /\ steps' = 0

\* commandBreakAddress switching the breakpoint off when it is on
commandBreakAddress_Toggles(arguments) ==
  IF Len(arguments) < 1
  THEN Panics("index") /\ printed' = <<>> /\ UNCHANGED <<breakAddress, breakAddressValue>>
  ELSE LET r == parseUint16(arguments[1], PC)
       IN IF r.err # "none"
          THEN /\ Panics(r.err) /\ printed' = <<>>
               /\ UNCHANGED <<breakAddress, breakAddressValue>>
          ELSE /\ breakAddress' = ~breakAddress
               /\ breakAddressValue' = r.value
               /\ printed' = <<"break-address set to $" \o Hex4(r.value)>>
               /\ Stays

commandBreakAddress(arguments) ==
  IF Len(arguments) < 1
  THEN Panics("index") /\ printed' = <<>> /\ UNCHANGED <<breakAddress, breakAddressValue>>
  ELSE LET r == parseUint16(arguments[1], PC)
       IN IF r.err # "none"
          THEN /\ Panics(r.err) /\ printed' = <<>>
               /\ UNCHANGED <<breakAddress, breakAddressValue>>
          ELSE /\ breakAddress' = TRUE
               /\ breakAddressValue' = r.value
               /\ printed' = <<"break-address set to $" \o Hex4(r.value)>>
               /\ Stays

CmdBreakAddress ==
  \E line \in LinesFor[debugCmdBreakAddress] :
    /\ Reads(line, debugCmdBreakAddress)
    /\ UNCHANGED deviceVars
    /\ commandBreakAddress(Args(line))
    /\ nextBp' = IF status' = "prompt" THEN "none" ELSE nextBp
    /\ UNCHANGED <<cpuVars, run, breakInstruction, breakRegA, breakRegAValue, breakRegX,
                   breakRegXValue, breakRegY, breakRegYValue, chanVars, in, histVars>>

CmdBreakInstruction ==
  \E line \in LinesFor[debugCmdBreakInstruction] :
    /\ Reads(line, debugCmdBreakInstruction)
    /\ UNCHANGED deviceVars
    /\ UNCHANGED nextBp
    /\ IF Len(Args(line)) < 1
       THEN Panics("index") /\ UNCHANGED breakInstruction
       ELSE breakInstruction' = ToUpper(Args(line)[1]) /\ Stays
    /\ printed' = <<>>
    /\ UNCHANGED <<cpuVars, run, breakAddress, breakAddressValue, breakRegA, breakRegAValue,
                   breakRegX, breakRegXValue, breakRegY, breakRegYValue, chanVars, in,
                   histVars>>

\* the register a break-register argument names, or "" for none
RegisterOf(regStr) ==
  IF regStr \in { <<"A">>, <<"a">>, <<"A","C">>, <<"a","c">> } THEN "A"
  ELSE IF regStr \in { <<"X">>, <<"x">> } THEN "X"
  ELSE IF regStr \in { <<"Y">>, <<"y">> } THEN "Y"
  ELSE ""

commandBreakRegister(arguments) ==
  IF Len(arguments) < 2
  THEN /\ Panics("index") /\ printed' = <<>>
       /\ UNCHANGED <<breakRegA, breakRegAValue, breakRegX, breakRegXValue, breakRegY,
                      breakRegYValue>>
  ELSE LET reg == RegisterOf(arguments[1])
           r == parseUint8(arguments[2])
           ok == reg # "" /\ r.err = "none"
       IN /\ breakRegA' = (breakRegA \/ reg = "A")
          /\ breakRegX' = (breakRegX \/ reg = "X")
          /\ breakRegY' = (breakRegY \/ reg = "Y")
          /\ breakRegAValue' = IF ok /\ reg = "A" THEN r.value ELSE breakRegAValue
          /\ breakRegXValue' = IF ok /\ reg = "X" THEN r.value ELSE breakRegXValue
          /\ breakRegYValue' = IF ok /\ reg = "Y" THEN r.value ELSE breakRegYValue
          /\ IF reg = "" THEN Panics("register") /\ printed' = <<>>
             ELSE IF r.err # "none" THEN Panics(r.err) /\ printed' = <<>>
             ELSE /\ printed' = <<"Breakpoint set: " \o Text(arguments[1]) \o " = $"
                                   \o Hex2(r.value) \o " (" \o Dec(r.value) \o ")">>
                  /\ Stays

CmdBreakRegister ==
  \E line \in LinesFor[debugCmdBreakRegister] :
    /\ Reads(line, debugCmdBreakRegister)
    /\ UNCHANGED deviceVars
    /\ UNCHANGED nextBp
    /\ commandBreakRegister(Args(line))
    /\ UNCHANGED <<cpuVars, run, breakAddress, breakAddressValue, breakInstruction,
                   chanVars, in, histVars>>

CmdContinue ==
  \E line \in LinesFor[debugCmdContinue] :
    /\ Reads(line, debugCmdContinue)
    /\ UNCHANGED deviceVars
    /\ UNCHANGED nextBp
    /\ run' = TRUE
    /\ Releases("continue")
    /\ printed' = <<>>
    /\ UNCHANGED <<cpuVars, bpVars, chanVars, in, stepAfterHalt, execAfterExit>>

\* d.cpu.ExitChan <- 0 on the unbuffered channel: the sender waits for a receiver
CmdExit ==
  \E line \in LinesFor[debugCmdExit] :
    /\ Reads(line, debugCmdExit)
    /\ UNCHANGED deviceVars
    /\ UNCHANGED nextBp
    /\ exitChan' = <<0>>
    /\ status' = "send"
    /\ printed' = <<>>
    /\ UNCHANGED <<cpuVars, run, bpVars, running, gor, logged, in, fault, histVars>>

CmdHelp ==
  \E line \in LinesFor[debugCmdHelp] :
    /\ Reads(line, debugCmdHelp)
    /\ UNCHANGED deviceVars
    /\ UNCHANGED nextBp
    /\ Stays
    /\ printed' = <<"pda6502 debuger">>
    /\ UNCHANGED <<cpuVars, run, bpVars, chanVars, in, histVars>>

\* commandNext with the sum not cut to 16 bits
commandNext_NoWrap(i) ==
  /\ breakAddress' = TRUE
  /\ breakAddressValue' = PC + i.bytes
  /\ run' = TRUE

\* commandNext: the breakpoint after the current instruction, and free-run
commandNext(i) ==
  /\ breakAddress' = TRUE
  /\ breakAddressValue' = (PC + i.bytes) % Word
  /\ run' = TRUE

CmdNext ==
  \E line \in LinesFor[debugCmdNext] :
    /\ Reads(line, debugCmdNext)
    /\ UNCHANGED deviceVars
    /\ commandNext(in)
    /\ nextBp' = "armed"
    /\ Releases("next")
    /\ printed' = <<>>
    /\ UNCHANGED <<cpuVars, breakInstruction, breakRegA, breakRegAValue, breakRegX,
                   breakRegXValue, breakRegY, breakRegYValue, chanVars, in,
                   stepAfterHalt, execAfterExit>>

\* where the serial controller is attached to the bus
AciaBase == 36880

\* d.cpu.Bus.Read at an address of no device with state: the byte stored there
BusRead(a) ==
  CASE a = 4096 -> 52 [] a = 4097 -> 18 [] a = 4098 -> 86 [] a = 4099 -> 120
    [] a = 1000 -> 205 [] a = 1001 -> 171
    [] a = 65534 -> 17 [] a = 65535 -> 34 [] a = 0 -> 51 [] a = 1 -> 68
    [] OTHER -> 0

\* the peripheral has nothing to return when it is not polled
NotPolled == [read |-> FALSE, data |-> 0, err |-> FALSE]

\* Acia6551.Read(address) on controller a, o being what the peripheral
\* returns if it is polled: the controller afterwards, the byte, the calls
Acia6551Read(a, address, o) ==
  IF address = aciaData
  THEN IF rxPolls(a)
       THEN [acia |-> rxRead(a, o), value |-> rxRead(a, o).rx,
             calls |-> <<[fn |-> "Read", arg |-> 0, out |-> o]>>]
       ELSE [acia |-> rxRead(a, NotPolled), value |-> rxRead(a, NotPolled).rx,
             calls |-> <<>>]
  ELSE [acia |-> a,
        value |-> IF address = aciaStatus THEN statusRegister(a)
                  ELSE IF address = aciaCommand THEN a.commandData
                  ELSE a.controlData,
        calls |-> <<>>]

\* Bus.Read: the device bound to the address reads at its offset
BusDispatch(a, address, o) ==
  IF address >= AciaBase /\ address < AciaBase + AciaSize
  THEN Acia6551Read(a, address - AciaBase, o)
  ELSE [acia |-> a, value |-> BusRead(address), calls |-> <<>>]

\* the bus reads of one command, in the order of addrs
RECURSIVE BusReads(_, _, _)
BusReads(a, addrs, o) ==
  IF addrs = <<>> THEN [acia |-> a, values |-> <<>>, calls |-> <<>>]
  ELSE LET first == BusDispatch(a, Head(addrs), o)
           rest == BusReads(first.acia, Tail(addrs), o)
       IN [acia |-> rest.acia, values |-> <<first.value>> \o rest.values,
           calls |-> first.calls \o rest.calls]

\* what the peripheral may return to the reads of a command
PollOutcomes == IF rxPolls(acia) THEN ReadOutcomes(acia.peripheral) ELSE {NotPolled}

\* the command has read nothing from the bus
NoBusRead == UNCHANGED <<acia, aciaCalls>>

\* the command has made the bus reads rd
BusRead_Done(rd) == acia' = rd.acia /\ aciaCalls' = rd.calls

commandRead(arguments, o) ==
  IF Len(arguments) < 1
  THEN Panics("index") /\ printed' = <<>> /\ NoBusRead
  ELSE LET r == parseUint16(arguments[1], PC)
       IN IF r.err # "none"
          THEN Panics(r.err) /\ printed' = <<>> /\ NoBusRead
          ELSE \E rd \in {BusReads(acia, <<r.value>>, o)} :
               \E v \in {rd.values[1]} :
                 /\ printed' = <<"$" \o Hex4(r.value) \o " => $" \o Hex2(v) \o " 0b"
                                  \o Bin(v, 8) \o " " \o Dec(v) \o " " \o Quoted(v)>>
                 /\ BusRead_Done(rd)
                 /\ Stays

\* commandRead16 with the two bytes the other way round
commandRead16_BigEndian(arguments, o) ==
  IF Len(arguments) < 1
  THEN Panics("index") /\ printed' = <<>> /\ NoBusRead
  ELSE LET r == parseUint16(arguments[1], PC)
           addrLo == r.value
           addrHi == (r.value + 1) % Word
       IN IF r.err # "none"
          THEN Panics(r.err) /\ printed' = <<>> /\ NoBusRead
          ELSE \E rd \in {BusReads(acia, <<addrLo, addrHi>>, o)} :
               \E v \in {rd.values[1] * 256 + rd.values[2]} :
                 /\ printed' = <<"$" \o Hex4(addrLo) \o "," \o Hex4(addrHi) \o " => $"
                                  \o Hex4(v) \o " 0b" \o Bin(v, 16) \o " " \o Dec(v)>>
                 /\ BusRead_Done(rd)
                 /\ Stays

commandRead16(arguments, o) ==
  IF Len(arguments) < 1
  THEN Panics("index") /\ printed' = <<>> /\ NoBusRead
  ELSE LET r == parseUint16(arguments[1], PC)
           addrLo == r.value
           addrHi == (r.value + 1) % Word
       IN IF r.err # "none"
          THEN Panics(r.err) /\ printed' = <<>> /\ NoBusRead
          ELSE \E rd \in {BusReads(acia, <<addrLo, addrHi>>, o)} :
               \E v \in {rd.values[2] * 256 + rd.values[1]} :
                 /\ printed' = <<"$" \o Hex4(addrLo) \o "," \o Hex4(addrHi) \o " => $"
                                  \o Hex4(v) \o " 0b" \o Bin(v, 16) \o " " \o Dec(v)>>
                 /\ BusRead_Done(rd)
                 /\ Stays

commandRead32(arguments, o) ==
  IF Len(arguments) < 1
  THEN Panics("index") /\ printed' = <<>> /\ NoBusRead
  ELSE LET r == parseUint16(arguments[1], PC)
           addr0 == r.value
           addr1 == (r.value + 1) % Word
           addr2 == (r.value + 2) % Word
           addr3 == (r.value + 3) % Word
       IN IF r.err # "none"
          THEN Panics(r.err) /\ printed' = <<>> /\ NoBusRead
          ELSE \E rd \in {BusReads(acia, <<addr0, addr1, addr2, addr3>>, o)} :
               \E v \in {rd.values[4] * 16777216 + rd.values[3] * 65536
                            + rd.values[2] * 256 + rd.values[1]} :
                 /\ printed' = <<"$" \o Hex4(addr0) \o ".." \o Hex4(addr3) \o " => $"
                                  \o Hex8(v) \o " 0b" \o Bin(v, 32) \o " " \o Dec(v)>>
                 /\ BusRead_Done(rd)
                 /\ Stays

\* the devices a read command does not reach
otherDevices == <<aciaOp, aciaRet, aciaOps, sdVars, cfgVars, mainVars>>

CmdRead ==
  \E line \in LinesFor[debugCmdRead], o \in PollOutcomes :
    /\ Reads(line, debugCmdRead)
    /\ UNCHANGED otherDevices
    /\ UNCHANGED nextBp
    /\ commandRead(Args(line), o)
    /\ UNCHANGED <<cpuVars, run, bpVars, chanVars, in, histVars>>

CmdRead16 ==
  \E line \in LinesFor[debugCmdRead16], o \in PollOutcomes :
    /\ Reads(line, debugCmdRead16)
    /\ UNCHANGED otherDevices
    /\ UNCHANGED nextBp
    /\ commandRead16(Args(line), o)
    /\ UNCHANGED <<cpuVars, run, bpVars, chanVars, in, histVars>>

CmdRead32 ==
  \E line \in LinesFor[debugCmdRead32], o \in PollOutcomes :
    /\ Reads(line, debugCmdRead32)
    /\ UNCHANGED otherDevices
    /\ UNCHANGED nextBp
    /\ commandRead32(Args(line), o)
    /\ UNCHANGED <<cpuVars, run, bpVars, chanVars, in, histVars>>

\* an empty line with no command before it
CmdNone ==
  \E line \in LinesFor[debugCmdNone] :
    /\ Reads(line, debugCmdNone)
    /\ UNCHANGED deviceVars
    /\ UNCHANGED nextBp
    /\ Stays
    /\ printed' = <<>>
    /\ UNCHANGED <<cpuVars, run, bpVars, chanVars, in, histVars>>

\* the step case also setting free-run
CmdStep_FreeRun ==
  \E line \in LinesFor[debugCmdStep] :
    /\ Reads(line, debugCmdStep)
    /\ UNCHANGED deviceVars
    /\ UNCHANGED nextBp
    /\ run' = TRUE
    /\ Releases("step")
    /\ printed' = <<>>
    /\ UNCHANGED <<cpuVars, bpVars, chanVars, in, stepAfterHalt, execAfterExit>>

\* case debugCmdStep: release = true
CmdStep ==
  \E line \in LinesFor[debugCmdStep] :
    /\ Reads(line, debugCmdStep)
    /\ UNCHANGED deviceVars
    /\ UNCHANGED nextBp
    /\ Releases("step")
    /\ printed' = <<>>
    /\ UNCHANGED <<cpuVars, run, bpVars, chanVars, in, stepAfterHalt, execAfterExit>>

CmdInvalid ==
  \E line \in LinesFor[debugCmdInvalid] :
    /\ Reads(line, debugCmdInvalid)
    /\ UNCHANGED deviceVars
    /\ UNCHANGED nextBp
    /\ Stays
    /\ printed' = <<"Invalid command.">>
    /\ UNCHANGED <<cpuVars, run, bpVars, chanVars, in, histVars>>

\* liner.Prompt fails (end of input): getCommand returns the error, commandLoop panics
ReadFails ==
  /\ status = "prompt"
  /\ UNCHANGED deviceVars
  /\ inputQueue = <<>>
  /\ typed < MaxTyped
  /\ typed' = typed + 1
  /\ Panics("input")
  /\ UNCHANGED <<cpuVars, run, bpVars, lastCmd, inputQueue, chanVars, in, printed,
                 dispatched, histVars, readVars>>

Next ==
  \/ Step
  \/ RunReturns
  \/ Execute
  \/ Receive
  \/ StoreRunning
  \/ CmdBreakAddress
  \/ CmdBreakInstruction
  \/ CmdBreakRegister
  \/ CmdContinue
  \/ CmdExit
  \/ CmdHelp
  \/ CmdNext
  \/ CmdNone
  \/ CmdRead
  \/ CmdRead16
  \/ CmdRead32
  \/ CmdStep
  \/ CmdInvalid
  \/ ReadFails

Spec == Init /\ [][Next]_allVars

ConsoleSpec == ConsoleInit /\ [][Next]_allVars

\* getCommand takes the line at the head of the queue
QueuedCommand ==
  /\ status = "prompt"
  /\ inputQueue # <<>>
  /\ inputQueue' = Tail(inputQueue)

(***************************************************************************)
(* The runs in which the program keeps going: the run loop and the         *)
(* goroutine are scheduled, and a queued command is taken without waiting  *)
(* for anybody.  Nothing makes the user type a line.                       *)
(***************************************************************************)
LiveSpec ==
  /\ Init
  /\ [][Next]_allVars
  /\ WF_allVars(Step \/ RunReturns)
  /\ WF_allVars(Execute)
  /\ WF_allVars(Receive)
  /\ WF_allVars(StoreRunning)
  /\ WF_inputQueue(QueuedCommand)

(***************************************************************************)
(* What the properties below speak of.                                     *)
(***************************************************************************)
\* this step is a call of the monitor hook
HookTaken == status = "loop" /\ status' \in {"prompt", "execute"}

\* this step is commandLoop reading a line and running its command
CommandTaken ==
  /\ status = "prompt"
  /\ (typed' # typed \/ inputQueue' # inputQueue)
  /\ fault' # "input"

\* the register breakpoints that are on and equal to their register
RegHits ==
  { r \in {"A", "X", "Y"} :
      \/ r = "A" /\ breakRegA /\ AC = breakRegAValue
      \/ r = "X" /\ breakRegX /\ X = breakRegXValue
      \/ r = "Y" /\ breakRegY /\ Y = breakRegYValue }

RegTarget(r) ==
  IF r = "A" THEN breakRegAValue ELSE IF r = "X" THEN breakRegXValue ELSE breakRegYValue

\* the notice of a register breakpoint, for the targets of the explored runs
Notice(r) ==
  IF RegTarget(r) = 255 THEN "Breakpoint for " \o r \o " = $FF (255)"
  ELSE IF RegTarget(r) = 0 THEN "Breakpoint for " \o r \o " = $00 (0)"
  ELSE "?"

Printed(msg) == \E k \in 1..Len(printed') : printed'[k] = msg

\* some enabled breakpoint matches instruction i and the registers of the moment
AnyMatch(i) ==
  \/ i.name = breakInstruction
  \/ breakAddress /\ PC = breakAddressValue
  \/ RegHits # {}

\* command c is an input error: an unknown command, an unparseable number or
\* an ambiguous symbol
InputError(c, pc) ==
  \/ c.id = debugCmdInvalid
  \/ /\ c.id = debugCmdBreakAddress
     /\ Len(c.arguments) >= 1
     /\ parseUint16(c.arguments[1], pc).err # "none"
  \/ /\ c.id = debugCmdBreakRegister
     /\ Len(c.arguments) >= 2
     /\ parseUint8(c.arguments[2]).err # "none"

(***************************************************************************)
(* C1: in Machine.Run, once a halt status has been sent on and received    *)
(* from the exit channel, the run loop starts no further cpu.Step().       *)
(***************************************************************************)
C1_NoStepAfterHalt == ~stepAfterHalt

(***************************************************************************)
(* C2: exit/quit sends status 0 on the halt channel, and after it has been *)
(* dispatched no instruction is executed any more, whatever is entered.    *)
(***************************************************************************)
C2_ExitEndsExecution ==
  /\ status = "send" => exitChan = <<0>>
  /\ ~execAfterExit

(***************************************************************************)
(* C3: every debugger input error is recoverable: the command is rejected, *)
(* the prompt repeats (no termination, no panic), and the free-run flag,   *)
(* the breakpoint settings and the CPU registers are as before.            *)
(***************************************************************************)
C3_InputErrorsRecoverable ==
  [][ (CommandTaken /\ InputError(dispatched'[1], PC))
        => (status' = "prompt" /\ UNCHANGED <<run, bpVars, cpuVars>>) ]_vars

(***************************************************************************)
(* C4: the address breakpoint installed by `next` is one-shot: once it has *)
(* stopped execution, a later `continue` that reaches the same PC again is *)
(* not stopped by it.                                                      *)
(***************************************************************************)
C4_NextIsOneShot == nextBp # "refired"

(***************************************************************************)
(* C5: for every instruction and every PC, `next` enables the address      *)
(* breakpoint with target (PC + byte length of the instruction about to    *)
(* execute) mod 2^16, with the PC as it is before that instruction runs,   *)
(* sets free-run, and releases control to the CPU.                         *)
(***************************************************************************)
C5_NextTargetsFollowingAddress ==
  [][ (CommandTaken /\ dispatched'[1].id = debugCmdNext)
        => /\ breakAddress'
           /\ breakAddressValue' = (PC + in.bytes) % 65536
           /\ breakAddressValue' \in 0..65535
           /\ run'
           /\ status' = "execute"
           /\ UNCHANGED cpuVars ]_vars

C5_Witness ==
  /\ status = "execute" /\ releasedBy = "next" /\ steps = 0
  /\ PC = 65535 /\ in.bytes = 2
  /\ breakAddress /\ breakAddressValue = 1

(***************************************************************************)
(* C6: with a register breakpoint on and free-run set by `continue`, the   *)
(* debugger stops at a hook invocation where the register equals the       *)
(* target, printing `Breakpoint for <reg> = $vv (d)`, and does not stop at *)
(* a hook where no breakpoint matches: it stops at the first hook at which *)
(* the register equals the target and at no earlier one.                   *)
(***************************************************************************)
C6_RegisterBreakStopsAtFirstMatch ==
  [][ (HookTaken /\ run /\ releasedBy = "continue")
        => /\ \A r \in RegHits : status' = "prompt" /\ ~run' /\ Printed(Notice(r))
           /\ ~AnyMatch(in') => (status' = "execute" /\ run' /\ printed' = <<>>) ]_vars

C6_Witness ==
  /\ status = "prompt" /\ releasedBy = "continue"
  /\ typed = 0 /\ inputQueue = <<>>
  /\ X = 255 /\ ~run
  /\ printed = <<"Breakpoint for X = $FF (255)">>

(***************************************************************************)
(* C7: a register breakpoint stays armed after it fires: its flag is never *)
(* cleared, and at every hook invocation at which the register equals the  *)
(* target the debugger reports it and stops, so that a `continue` or       *)
(* `step` issued while the register holds the target executes exactly one  *)
(* instruction before the next stop.                                       *)
(***************************************************************************)
C7_RegisterBreakStaysArmed ==
  [][ /\ breakRegA => breakRegA'
      /\ breakRegX => breakRegX'
      /\ breakRegY => breakRegY'
      /\ HookTaken =>
           \A r \in RegHits : status' = "prompt" /\ ~run' /\ Printed(Notice(r)) ]_vars

C7_Witness ==
  /\ status = "prompt" /\ typed = 1 /\ inputQueue = <<>>
  /\ releasedBy = "continue" /\ steps = 1
  /\ breakRegX /\ X = breakRegXValue
  /\ printed = <<"Breakpoint for X = $FF (255)">>

(***************************************************************************)
(* C8: `step` releases control for exactly one instruction: after it, one  *)
(* instruction executes and the debugger is back in its command loop at    *)
(* the very next hook invocation, whether or not a breakpoint matches.     *)
(***************************************************************************)
C8_StepExecutesOneInstruction ==
  releasedBy = "step" =>
    /\ steps <= 1
    /\ status = "execute" => steps = 0
    /\ steps = 1 => ~run

C8_Witness ==
  /\ status = "prompt" /\ releasedBy = "step" /\ steps = 1
  /\ printed = <<>>

(***************************************************************************)
(* C9: at a hook invocation where free-run is set and no enabled           *)
(* breakpoint matches, the hook returns without blocking and without       *)
(* reading a queued or typed command, and leaves free-run and every        *)
(* breakpoint setting unchanged.                                           *)
(***************************************************************************)
C9_FreeRunPassesThrough ==
  [][ (HookTaken /\ run /\ ~AnyMatch(in'))
        => /\ status' = "execute"
           /\ run'
           /\ UNCHANGED <<bpVars, inputQueue, typed, lastCmd, lineRead>> ]_vars

C9_Witness ==
  /\ status = "execute" /\ run /\ steps >= 1
  /\ breakRegX /\ X # breakRegXValue
  /\ inputQueue = <<>>

(***************************************************************************)
(* C10: an empty line dispatches the previous command again, with the same *)
(* command id and the same arguments, whatever that command was; with no   *)
(* previous command an empty line changes nothing and the prompt repeats.  *)
(***************************************************************************)
\* what dispatching command c must do to the debugger
Redone(c) ==
  /\ c.id = debugCmdContinue => (status' = "execute" /\ run' /\ releasedBy' = "continue")
  /\ c.id = debugCmdStep => (status' = "execute" /\ releasedBy' = "step")
  /\ c.id = debugCmdNext => (status' = "execute" /\ breakAddress' /\ releasedBy' = "next")
  /\ c.id = debugCmdExit => status' = "send"
  /\ c.id = debugCmdInvalid => printed' = <<"Invalid command.">>
  /\ c.id = debugCmdBreakInstruction => breakInstruction' = ToUpper(c.arguments[1])
  /\ c.input = Line_br_x => (breakRegX' /\ breakRegXValue' = 255)
  /\ c.input = Line_ba_hex => (breakAddress' /\ breakAddressValue' = 65535)
  /\ c.input = Line_ba_dot => (breakAddress' /\ breakAddressValue' = PC)

C10_EmptyLineRepeats ==
  [][ (CommandTaken /\ lineRead' = <<Line_empty>>)
        => IF lastCmd # <<>>
           THEN /\ dispatched' = lastCmd
                /\ lastCmd' = lastCmd
                /\ Redone(lastCmd[1])
           ELSE /\ dispatched'[1].id = debugCmdNone
                /\ status' = "prompt"
                /\ UNCHANGED <<cpuVars, run, bpVars, chanVars, in>> ]_vars

C10_Witness ==
  /\ lineRead = <<Line_empty>>
  /\ dispatched # <<>>
  /\ dispatched[1].id = debugCmdBreakRegister
  /\ dispatched[1].arguments = << <<"x">>, <<"$","f","f">> >>
  /\ printed = <<"Breakpoint set: x = $FF (255)">>

(***************************************************************************)
(* The serial controller.                                                  *)
(***************************************************************************)
\* this step is the bus operation op on register offset address
AciaDoes(op, address) ==
  /\ aciaOps' = aciaOps + 1
  /\ aciaOp'.op = op
  /\ aciaOp'.address = address

\* bit k of byte d is set
BitSet(d, k) == (d \div Pow(2, k)) % 2 = 1

(***************************************************************************)
(* C11: from any reachable state of the controller, a write of any byte to *)
(* the status offset (1) leaves rxFull false, txEmpty true, overrun false, *)
(* both IRQ enables false and the command and control registers at 0.      *)
(***************************************************************************)
C11_StatusWriteResets ==
  [][ AciaDoes("Write", aciaStatus)
        => /\ ~acia'.rxFull /\ acia'.txEmpty /\ ~acia'.overrun
           /\ ~acia'.rxIrqEnabled /\ ~acia'.txIrqEnabled
           /\ acia'.commandData = 0 /\ acia'.controlData = 0
           /\ aciaCalls' = <<>> ]_aciaVars

C11_Witness ==
  /\ aciaOp = [op |-> "Write", address |-> aciaStatus, data |-> 12]
  /\ aciaOps = 2
  /\ acia.txEmpty /\ ~acia.rxIrqEnabled /\ ~acia.txIrqEnabled
  /\ acia.commandData = 0 /\ acia.controlData = 0
  /\ acia.capabilities = BiDirectional

(***************************************************************************)
(* C12: a read of the data offset polls the peripheral at most once, and   *)
(* only when rxFull is false and the peripheral can read; the byte the     *)
(* peripheral returns, if it returns one, is the value read, otherwise the *)
(* rx byte held before; afterwards rxFull and overrun are false and        *)
(* nothing else has changed.                                               *)
(***************************************************************************)
C12_DataReadPollsOnce ==
  [][ AciaDoes("Read", aciaData)
        => /\ Len(aciaCalls') <= 1
           /\ aciaCalls' # <<>> =>
                /\ aciaCalls'[1].fn = "Read"
                /\ ~acia.rxFull
                /\ acia.capabilities \in {Read, BiDirectional}
           /\ aciaRet' = IF aciaCalls' # <<>> /\ aciaCalls'[1].out.read
                         THEN aciaCalls'[1].out.data
                         ELSE acia.rx
           /\ acia' = [acia EXCEPT !.rx = aciaRet', !.rxFull = FALSE,
                                   !.overrun = FALSE] ]_aciaVars

C12_Witness ==
  /\ aciaOp.op = "Read" /\ aciaOp.address = aciaData
  /\ aciaCalls # <<>>
  /\ ~aciaCalls[1].out.read /\ aciaCalls[1].out.data = 4
  /\ aciaRet = 12 /\ acia.rx = 12

(***************************************************************************)
(* C13: a write of byte b to the data offset forwards b to the peripheral  *)
(* exactly once when it can write, and then txEmpty is true iff the        *)
(* peripheral accepted the byte or reported an error; when it cannot write *)
(* (no peripheral included) nothing is called and no field changes.        *)
(***************************************************************************)
C13_DataWriteForwardsOnce ==
  [][ AciaDoes("Write", aciaData)
        => IF acia.capabilities \in {Write, BiDirectional}
           THEN /\ Len(aciaCalls') = 1
                /\ aciaCalls'[1].fn = "Write"
                /\ aciaCalls'[1].arg = aciaOp'.data
                /\ acia'.txEmpty = (aciaCalls'[1].out.written \/ aciaCalls'[1].out.err)
                /\ acia' = [acia EXCEPT !.tx = aciaOp'.data, !.txEmpty = acia'.txEmpty]
           ELSE /\ aciaCalls' = <<>>
                /\ acia' = acia ]_aciaVars

C13_Witness ==
  /\ aciaOp = [op |-> "Write", address |-> aciaData, data |-> 8]
  /\ aciaCalls = <<[fn |-> "Write", arg |-> 8,
                    out |-> [written |-> FALSE, err |-> TRUE]]>>
  /\ acia.tx = 8 /\ acia.txEmpty

(***************************************************************************)
(* C14: after a write of byte d to the command offset the command register *)
(* reads back d, rxIrqEnabled is true iff bit 1 of d is set, and           *)
(* txIrqEnabled is true iff bit 2 of d is set and bit 3 of d is clear.     *)
(***************************************************************************)
C14_CommandWriteMasksBits ==
  [][ AciaDoes("Write", aciaCommand)
        => /\ acia'.commandData = aciaOp'.data
           /\ acia'.rxIrqEnabled = BitSet(aciaOp'.data, 1)
           /\ acia'.txIrqEnabled = (BitSet(aciaOp'.data, 2) /\ ~BitSet(aciaOp'.data, 3)) ]_aciaVars

(***************************************************************************)
(* The SD card peripheral.                                                 *)
(***************************************************************************)
(***************************************************************************)
(* C15: for a freshly constructed SD card peripheral, the bytes shifted    *)
(* out on MISO by the first three completed exchanges, before any command  *)
(* is issued (the master sends idle bytes), are 0x00, 0x00, 0xFF in order. *)
(***************************************************************************)
C15_FirstThreeMisoBytes ==
  (Len(seen) = 3 /\ \A k \in 1..3 : seen[k].mosi = Filler)
    => <<seen[1].miso, seen[2].miso, seen[3].miso>> = <<0, 0, 255>>

(***************************************************************************)
(* C19: in every SdCardPeripheral.Write, if the slave reports a clock edge *)
(* and Done, the card consumes the completed MOSI byte exactly once and    *)
(* then exactly one byte is taken from the card's queue (or the filler)    *)
(* and loaded into the slave for the next exchange, in that order; if the  *)
(* write is no clock edge or Done is false, the card's parser state and    *)
(* queue are unchanged.                                                    *)
(***************************************************************************)
C19_WriteConsumesThenShifts ==
  [][ IF sdEdge' /\ spi'.Done
      THEN LET consumed == consumeByte(card, spi'.Mosi)
               loaded == IF consumed.queue # <<>> THEN Head(consumed.queue) ELSE Filler
           IN /\ sdEvents' = << <<"consumeByte", spi'.Mosi>>, <<"shiftMiso", loaded>> >>
              /\ card'.frame = consumed.frame
              /\ card'.queue = IF consumed.queue # <<>> THEN Tail(consumed.queue) ELSE <<>>
              /\ spi'.Miso = loaded
      ELSE /\ sdEvents' = <<>>
           /\ card' = card
           /\ spi'.Miso = spi.Miso ]_sdVars

C19_Witness ==
  /\ sdEdge /\ spi.Done
  /\ sdEvents = << <<"consumeByte", 0>>, <<"shiftMiso", R1Idle>> >>
  /\ card = [queue |-> <<>>, frame |-> 0]
  /\ spi.Miso = R1Idle

(***************************************************************************)
(* The read commands of the debugger.                                      *)
(***************************************************************************)
\* this step dispatches the line typed or queued as input
Dispatches(input) == CommandTaken /\ lineRead' = <<input>> /\ dispatched'[1].input = input

\* read16 and read32 print the little-endian value of the bytes at a, a+1
\* (and a+2, a+3), the addresses taken modulo 2^16
ReadsLittleEndian ==
  /\ Dispatches(Line_r16_hex) =>
       printed' = <<"$1000,1001 => $" \o Hex4(BusRead(4096) + 256 * BusRead(4097))
                    \o " 0b0001001000110100 4660">>
  /\ Dispatches(Line_r16_top) =>
       printed' = <<"$FFFF,0000 => $" \o Hex4(BusRead(65535) + 256 * BusRead(0))
                    \o " 0b0011001100100010 13090">>
  /\ Dispatches(Line_r32_top) =>
       printed' = <<"$FFFE..0001 => $"
                    \o Hex8(BusRead(65534) + 256 * BusRead(65535)
                            + 65536 * BusRead(0) + 16777216 * BusRead(1))
                    \o " 0b01000100001100110010001000010001 1144201745">>

(***************************************************************************)
(* C16 as stated: read16 and read32 print the little-endian value of the   *)
(* bytes at a.. (mod 2^16), and `read16 1000` with 0x34 at 0x1000 and 0x12 *)
(* at 0x1001 prints the value 0x1234.                                      *)
(***************************************************************************)
C16_Read16Of1000Prints1234 ==
  [][ /\ ReadsLittleEndian
      /\ Dispatches(Line_r16_dec) =>
           printed' = <<"$1000,1001 => $1234 0b0001001000110100 4660">> ]_vars

(***************************************************************************)
(* C16 amended: read16 and read32 print the little-endian value of the     *)
(* bytes at a.. (mod 2^16), a being the argument as parseUint16 reads it:  *)
(* `read16 $1000` prints the value 0x1234, while `read16 1000` is decimal  *)
(* and prints the value of the bytes at 0x03E8 and 0x03E9.                 *)
(***************************************************************************)
C16_Read16LittleEndianAtParsedAddress ==
  [][ /\ ReadsLittleEndian
      /\ Dispatches(Line_r16_hex) =>
           printed' = <<"$1000,1001 => $1234 0b0001001000110100 4660">>
      /\ Dispatches(Line_r16_dec) =>
           printed' = <<"$03E8,03E9 => $" \o Hex4(BusRead(1000) + 256 * BusRead(1001))
                        \o " 0b1010101111001101 43981">> ]_vars

C16_Witness ==
  /\ status = "prompt"
  /\ lineRead = <<Line_r16_top>>
  /\ printed = <<"$FFFF,0000 => $3322 0b0011001100100010 13090">>


(***************************************************************************)
(* Config.Start                                                            *)
(***************************************************************************)
HexDigitChars ==
  {"0", "1", "2", "3", "4", "5", "6", "7", "8", "9",
   "a", "b", "c", "d", "e", "f", "A", "B", "C", "D", "E", "F"}

\* the address of entry h is four hex digits, that is two bytes
TwoHexBytes(h) ==
  /\ Len(h.Address) = 4
  /\ \A i \in 1..4 : h.Address[i] \in HexDigitChars

AddressOf(h) ==
  DigitValue(h.Address[1]) * 4096 + DigitValue(h.Address[2]) * 256
    + DigitValue(h.Address[3]) * 16 + DigitValue(h.Address[4])

\* the chip Start picks for entry h
ChipOf(h) ==
  IF h.Ram # <<>> THEN "ram"
  ELSE IF h.Rom # <<>> THEN "rom"
  ELSE IF h.Acia6551 # <<>> THEN "acia"
  ELSE IF h.Via6522 # <<>> THEN "via"
  ELSE "none"

ConfigureFails(h) ==
  \/ ChipOf(h) = "ram" /\ h.Ram[1].Size < 1024
  \/ ChipOf(h) = "rom" /\ h.Rom[1].Filename = "missing.rom"

SizeOf(h) ==
  IF ChipOf(h) = "ram" THEN RamSize
  ELSE IF ChipOf(h) = "rom" THEN RomSize
  ELSE IF ChipOf(h) = "acia" THEN AciaSize
  ELSE ViaSize

AttachFails(h, b) ==
  \E k \in 1..Len(b) :
    /\ AddressOf(h) < b[k].address + b[k].m.size
    /\ b[k].address < AddressOf(h) + SizeOf(h)

\* entry h makes Start return an error when the bus holds b
Refused(h, b) ==
  \/ h.Address = <<>>
  \/ ~TwoHexBytes(h)
  \/ ChipOf(h) = "none"
  \/ ConfigureFails(h)
  \/ AttachFails(h, b)

\* the devices of the bindings of b, in attach order
Attached(b) == [k \in 1..Len(b) |-> b[k].m]

\* C17: Config.Start takes the hardware entries in order and returns an
\* error at the first entry whose address is empty or is not exactly two hex
\* bytes, that defines no chip, whose chip fails to Configure or whose Attach
\* fails; nothing is attached after the error, and c.memory always holds
\* exactly the devices whose Attach succeeded, in attach order.
C17_StartStopsAtFirstBadEntry ==
  [][ /\ cfgState # "returned"
      /\ memory' = Attached(addressBus')
      /\ entry' # entry =>
           LET h == entry'[Len(entry')]
           IN /\ entry' = Append(entry, h)
              /\ IF Refused(h, addressBus)
                 THEN /\ cfgState' = "returned"
                      /\ cfgErr' # "nil"
                      /\ addressBus' = addressBus
                      /\ memory' = memory
                 ELSE /\ cfgState' = "loop"
                      /\ cfgErr' = "nil"
                      /\ Len(addressBus') = Len(addressBus) + 1
                      /\ SubSeq(addressBus', 1, Len(addressBus)) = addressBus
                      /\ LET bound == addressBus'[Len(addressBus')]
                         IN /\ bound.name = h.Name
                            /\ bound.address = AddressOf(h)
                            /\ bound.m.kind = ChipOf(h)
                            /\ bound.m.id = Len(entry')
                            /\ memory' = Append(memory, bound.m)
    ]_cfgVars

\* two devices are attached and the third entry's Attach fails
C17_Witness ==
  /\ cfgState = "returned"
  /\ cfgErr = "overlap"
  /\ Len(entry) = 3
  /\ Len(memory) = 2


(***************************************************************************)
(* Machine.Run after exit                                                  *)
(***************************************************************************)
\* exit/quit has been dispatched: its send is pending or has been received
ExitDispatched == status = "send" \/ gor # "recv"

\* C18: in Machine.Run with the debugger attached, once exit/quit has been
\* dispatched Run eventually returns, with no further command having to be
\* entered: from every such point Run returns unless another line is typed.
C18_RunReturnsAfterExit ==
  \A n \in 0..(MaxTyped - 1) :
    [](ExitDispatched /\ typed = n => <>(status = "returned" \/ typed > n))


(***************************************************************************)
(* The command queue                                                       *)
(***************************************************************************)
\* C20: queued commands are dispatched in the order they were queued, over
\* one QueueCommands call or several, each exactly once and one per prompt:
\* a prompt reached with lines queued takes the line at the head and leaves
\* the others, and a line is read from the terminal only at a prompt reached
\* with the queue empty; nothing but the prompt touches the queue (the
\* goroutine of Machine.Run may take a step of its own meanwhile).
C20_QueueDispatchedInOrder ==
  [][ /\ inputQueue' # inputQueue =>
           /\ status = "prompt"
           /\ inputQueue # <<>>
           /\ lineRead' = <<Head(inputQueue)>>
           /\ inputQueue' = Tail(inputQueue)
           /\ typed' = typed
      /\ typed' # typed =>
           /\ status = "prompt"
           /\ inputQueue = <<>>
           /\ typed' = typed + 1
      /\ (status = "prompt" /\ gor' = gor /\ inputQueue # <<>>) =>
           /\ inputQueue' = Tail(inputQueue)
           /\ dispatched' = <<getCommand(Head(inputQueue), lastCmd).c>>
    ]_vars

\* both lines queued by two QueueCommands calls have been dispatched, in order
C20_Witness ==
  /\ typed = 0
  /\ inputQueue = <<>>
  /\ breakRegX
  /\ lineRead = <<Line_continue>>
  /\ releasedBy = "continue"


(***************************************************************************)
(* The receiver flags                                                      *)
(***************************************************************************)
\* the last bus operation on the controller
AciaDid(op, address) == aciaOp.op = op /\ aciaOp.address = address

\* C24: in every reachable state of the controller, after any sequence of
\* bus reads, bus writes and resets, rxFull and overrun are false, so a read
\* of the status register returns 0x00 or 0x10 only, and a read of the data
\* register polls the peripheral whenever it has read capability.
C24_ReceiverNeverFull ==
  /\ ~acia.rxFull
  /\ ~acia.overrun
  /\ statusRegister(acia) \in {0, 16}
  /\ AciaDid("Read", aciaStatus) => aciaRet \in {0, 16}
  /\ (AciaDid("Read", aciaData) /\ acia.capabilities \in {Read, BiDirectional})
       => (Len(aciaCalls) = 1 /\ aciaCalls[1].fn = "Read")

\* a byte has been received and the next data read polls again
C24_Witness ==
  /\ AciaDid("Read", aciaData)
  /\ aciaOps = 2
  /\ acia.rx = 8
  /\ aciaCalls # <<>> /\ aciaCalls[1].out.read /\ aciaCalls[1].out.data = 8
  /\ statusRegister(acia) = 0


(***************************************************************************)
(* The breakpoint slots                                                    *)
(***************************************************************************)
\* the command this step dispatches is of kind id
Taken(id) == CommandTaken /\ dispatched'[1].id = id

\* C25: the debugger holds one address breakpoint and never disarms one:
\* break-address and `next` each overwrite the single target, so that after
\* `next` an address set before with break-address stops execution no more,
\* and an enable flag (address, A, X, Y) that is true stays true.
C25_OneAddressSlotNeverDisarmed ==
  [][ /\ breakAddress => breakAddress'
      /\ breakRegA => breakRegA'
      /\ breakRegX => breakRegX'
      /\ breakRegY => breakRegY'
      /\ (Taken(debugCmdBreakAddress) /\ status' = "prompt")
           => /\ breakAddress'
              /\ breakAddressValue' = parseUint16(dispatched'[1].arguments[1], PC).value
      /\ Taken(debugCmdNext)
           => /\ breakAddress'
              /\ breakAddressValue' = (PC + in.bytes) % 65536
      /\ breakAddressValue' # breakAddressValue
           => (Taken(debugCmdBreakAddress) \/ Taken(debugCmdNext))
      /\ (HookTaken /\ run /\ PC # breakAddressValue
            /\ in'.name # breakInstruction /\ RegHits = {})
           => (status' = "execute" /\ run')
    ]_vars

\* `ba .` at the reset vector, a step, then `next` on the jump back to the
\* reset vector: the hook at the address set with break-address lets go on
C25_Witness ==
  /\ typed = 0 /\ inputQueue = <<>>
  /\ lineRead = <<Line_next>>
  /\ releasedBy = "next" /\ steps = 1
  /\ status = "execute" /\ run
  /\ PC = ResetVector
  /\ breakAddress /\ breakAddressValue = 1


(***************************************************************************)
(* The read commands and the devices                                       *)
(***************************************************************************)
\* this step dispatches read, read16 or read32
ReadTaken ==
  /\ CommandTaken
  /\ dispatched'[1].id \in {debugCmdRead, debugCmdRead16, debugCmdRead32}

\* C22: read, read16 and read32 only observe: the CPU registers and the
\* state of every device on the bus are as before, also when the address
\* read is the data register of the serial controller: no byte is taken
\* from the peripheral and no field of the controller changes.
C22_ReadsOnlyObserve ==
  [][ ReadTaken
        => /\ UNCHANGED cpuVars
           /\ acia' = acia
           /\ aciaCalls' = <<>>
           /\ UNCHANGED <<sdVars, cfgVars, mainVars>> ]_allVars


(***************************************************************************)
(* The send of exit                                                        *)
(***************************************************************************)
\* the debugger is inside `d.cpu.ExitChan <- 0`
Sending == status = "send"

\* C21: in Machine.Run every exit/quit the debugger dispatches completes its
\* send on the halt channel: the debugger never stays blocked on the
\* channel, also when exit is given a second time or repeated by an empty
\* line.
C21_ExitSendCompletes == Sending ~> ~Sending


(***************************************************************************)
(* The standalone program after the halt                                   *)
(***************************************************************************)
\* C23: in the standalone main, once a halt status or an interrupt has been
\* received, no cpu.Step() runs during or after the printing of the CPU and
\* the dump of the RAM: no step is in progress while the main thread
\* reports, none has begun since the select returned, and what is dumped is
\* what was printed.
C23_NoStepWhileReporting ==
  /\ ~(Reporting /\ cpuAt = "step")
  /\ ~lateStep
  /\ dumped # -1 => dumped = shown

====
